---- MODULE Spec2Model ----
(***************************************************************************)
(* ClaudeScript (scripts/ClaudeScript.py): the typed line-record codec,    *)
(* the snapshot encoder/decoder, the snapshot differ and the dry-run       *)
(* reconciler; and the line runner of scripts/OperatingTools.py            *)
(* (ClaudeScriptRunner.apply_claudescript).                                *)
(*                                                                         *)
(* A Python str is a sequence of one-character strings.  The newline and   *)
(* the carriage return are the characters LF and CR; the backslash is BS.  *)
(* A Python dict is the sequence of its <<key, value>> items in insertion  *)
(* order, with distinct keys.                                              *)
(***************************************************************************)
EXTENDS Integers, Sequences, FiniteSets, TLC

VARIABLES
    prefix_map,         \* self.prefix_map: the items of the prefix table, in order
    spec_version,       \* self.spec_version
    op,                 \* the operation that ran last, with its path arguments
    data_type,          \* encode(): data_type
    data,               \* encode(): data
    claudescript,       \* the line encode() returned / decode() is given
    decoded,            \* what decode() returned, or the error it raised
    snapshot_data,      \* encode_snapshot(): snapshot_data
    claudescript_lines, \* decode_snapshot(): the lines read from a snapshot
    encoded_lines,      \* what encode_snapshot() returned
    snapshot,           \* what decode_snapshot() returned
    files,              \* the snapshot files on disk: path -> lines
    differences,        \* what compare_snapshots() returned
    previous,           \* the compare_snapshots() call before it: arguments and result
    commands,           \* what create_diff_claudescript() returned
    installed,          \* the packages pacman -Qi knows
    existing,           \* the paths os.path.exists() finds
    unwritable,         \* the directories os.makedirs() cannot make
    dry_run,            \* apply_snapshot(): dry_run
    results,            \* what apply_snapshot() returned
    stdout,             \* the warnings decode_snapshot() printed
    script,             \* apply_claudescript(): script
    called,             \* the call apply_claudescript() made, and what it returned
    pc,                 \* thread -> the place of the thread in its invocation
    invocation,         \* thread -> the method the thread called, with its arguments
    frames              \* frame -> the local variables of an invocation

codecVars == <<data_type, data, claudescript, decoded>>
snapVars  == <<snapshot_data, claudescript_lines, encoded_lines, snapshot>>
diffVars  == <<files, differences, previous, commands>>
applyVars == <<installed, existing, unwritable, dry_run, results>>
runnerVars == <<script, called>>
threadVars == <<pc, invocation, frames>>

vars ==
    <<prefix_map, spec_version, op, codecVars, snapVars, diffVars, applyVars,
      stdout, runnerVars, threadVars>>

(* ------------------------------ characters ----------------------------- *)
BS == "\\"
LF == "LF"
CR == "CR"

(* ------------------------------- bounds -------------------------------- *)
MaxPayloadLen == 3
MaxItems == 2
MaxSnapLines == 2
MaxDiffLines == 2
MaxApplyLines == 2
MaxThreadLines == 2

(* ----------------------------- str helpers ----------------------------- *)
StartsWith(s, p) ==
    /\ Len(p) <= Len(s)
    /\ \A k \in 1..Len(p) : s[k] = p[k]

\* old occurs in s at index i
OccursAt(s, i, old) ==
    /\ i + Len(old) - 1 <= Len(s)
    /\ \A k \in 1..Len(old) : s[i + k - 1] = old[k]

\* str.replace(old, new): every non-overlapping occurrence, left to right
RECURSIVE ReplaceFrom(_, _, _, _)
ReplaceFrom(s, i, old, new) ==
    IF i > Len(s) THEN <<>>
    ELSE IF OccursAt(s, i, old)
         THEN new \o ReplaceFrom(s, i + Len(old), old, new)
         ELSE <<s[i]>> \o ReplaceFrom(s, i + 1, old, new)

Replace(s, old, new) == ReplaceFrom(s, 1, old, new)

\* the strings over alphabet of length at most n
RECURSIVE StrUpTo(_, _)
StrUpTo(alphabet, n) ==
    IF n = 0 THEN {<<>>}
    ELSE LET shorter == StrUpTo(alphabet, n - 1)
         IN  shorter \cup {Append(s, c) : s \in shorter, c \in alphabet}

(* ----------------------------- PREFIX_MAP ------------------------------ *)
Item(k, v) == [prefix |-> k, type |-> v]

PREFIX_MAP == <<
    Item(<<"v", ":">>, "version"),
    Item(<<"s", ":">>, "system"),
    Item(<<"p", ":">>, "package"),
    Item(<<"k", ":">>, "kernel"),
    Item(<<"c", ":">>, "cpu"),
    Item(<<"m", ":">>, "memory"),
    Item(<<"d", ":">>, "disk"),
    Item(<<"g", ":">>, "gpu"),
    Item(<<"f", ":">>, "file"),
    Item(<<"c", "f", ":">>, "config"),
    Item(<<"p", "k", ":">>, "package_config"),
    Item(<<"s", "v", ":">>, "service"),
    Item(<<"i", ":">>, "input"),
    Item(<<"o", ":">>, "output"),
    Item(<<"n", ":">>, "network"),
    Item(<<"c", "m", "d", ":">>, "command"),
    Item(<<"r", ":">>, "runtime"),
    Item(<<"b", ":">>, "build"),
    Item(<<"t", ":">>, "tweak"),
    Item(<<"e", ":">>, "error"),
    Item(<<"a", ":">>, "alias"),
    Item(<<"h", ":">>, "hook"),
    Item(<<"s", "c", "o", "p", "e", ":">>, "scope") >>

SPEC_VERSION == <<"1", ".", "0", ".", "0">>

RegisteredTypes == {prefix_map[i].type : i \in DOMAIN prefix_map}

\* self.reverse_prefix_map = {v: k for k, v in self.prefix_map.items()}:
\* the prefix of the last item of a type; None (here <<>>) when there is none
ReversePrefix(type) ==
    LET at == {i \in DOMAIN prefix_map : prefix_map[i].type = type}
    IN  IF at = {} THEN <<>>
        ELSE prefix_map[CHOOSE i \in at : \A j \in at : j <= i].prefix

(* -------------------------------- codec -------------------------------- *)
CleanForEncoding(s) ==
    Replace(Replace(Replace(s, <<LF>>, <<BS, "n">>), <<CR>>, <<BS, "r">>),
            <<":">>, <<BS, ":">>)

\* variant: '\r' is left as it is
ParseForDecodingKeepingCR(s) ==
    Replace(Replace(s, <<BS, "n">>, <<LF>>), <<BS, ":">>, <<":">>)

ParseForDecoding(s) ==
    Replace(Replace(Replace(s, <<BS, "n">>, <<LF>>), <<BS, "r">>, <<CR>>),
            <<BS, ":">>, <<":">>)

ValueError == [ok |-> FALSE]

\* encode(): ValueError when the type has no (or an empty) prefix
EncodeRaises(type) == ReversePrefix(type) = <<>>

Encode(type, s) == ReversePrefix(type) \o CleanForEncoding(s)

\* variant: the last item of the table stands in when no prefix matches
RECURSIVE FirstMatchOrLast(_, _)
FirstMatchOrLast(line, i) ==
    IF i >= Len(prefix_map) THEN Len(prefix_map)
    ELSE IF StartsWith(line, prefix_map[i].prefix) THEN i
    ELSE FirstMatchOrLast(line, i + 1)

\* decode(): the first item of the table, from item i on, whose prefix the
\* line starts with; 0 when there is none
RECURSIVE FirstMatch(_, _)
FirstMatch(line, i) ==
    IF i > Len(prefix_map) THEN 0
    ELSE IF StartsWith(line, prefix_map[i].prefix) THEN i
    ELSE FirstMatch(line, i + 1)

DecodeRaises(line) == FirstMatch(line, 1) = 0

Decode(line) ==
    LET i == FirstMatch(line, 1)
    IN  [ok   |-> TRUE,
         type |-> prefix_map[i].type,
         data |-> ParseForDecoding(
                      SubSeq(line, Len(prefix_map[i].prefix) + 1, Len(line)))]

DecodeResult(line) == IF DecodeRaises(line) THEN ValueError ELSE Decode(line)

(* ----------------------- dict and list helpers ------------------------ *)
\* d.get(k, default) on a dict keyed by field name
Get(d, k, default) == IF k \in DOMAIN d THEN d[k] ELSE default

\* d[k] = v on a dict keyed by field name
Put(d, k, v) == [x \in DOMAIN d \cup {k} |-> IF x = k THEN v ELSE d[x]]

\* a dict of settings is the sequence of its items: keys, lookup, assignment
Keys(items) == {items[i][1] : i \in DOMAIN items}

Lookup(items, k) == items[CHOOSE i \in DOMAIN items : items[i][1] = k][2]

SetItem(items, k, v) ==
    IF k \in Keys(items)
    THEN [i \in DOMAIN items |-> IF items[i][1] = k THEN <<k, v>> ELSE items[i]]
    ELSE Append(items, <<k, v>>)

\* the mapping a dict of settings stands for: == on dicts compares these
AsMap(items) == [k \in Keys(items) |-> Lookup(items, k)]

\* variant: two dicts are equal only with their items in one order
ItemsEq(d1, d2) == d1 = d2

DictEq(d1, d2) == AsMap(d1) = AsMap(d2)

IndexOf(s, c) == CHOOSE i \in DOMAIN s : s[i] = c /\ \A j \in 1..(i - 1) : s[j] # c

Contains(s, c) == \E i \in DOMAIN s : s[i] = c

\* s.split(c, maxsplit); maxsplit = -1 is no limit
RECURSIVE Split(_, _, _)
Split(s, c, maxsplit) ==
    IF maxsplit = 0 \/ ~Contains(s, c) THEN <<s>>
    ELSE LET i == IndexOf(s, c)
         IN  <<SubSeq(s, 1, i - 1)>>
                 \o Split(SubSeq(s, i + 1, Len(s)), c, maxsplit - 1)

\* ",".join(parts)
RECURSIVE Join(_, _)
Join(parts, sep) ==
    IF parts = <<>> THEN <<>>
    ELSE IF Len(parts) = 1 THEN parts[1]
    ELSE parts[1] \o sep \o Join(Tail(parts), sep)

Latest == <<"l", "a", "t", "e", "s", "t">>
Archlinux == <<"a", "r", "c", "h", "l", "i", "n", "u", "x">>
SysColon == <<"s", "y", "s", ":">>
PyNone == <<"<None>">>

(* --------------------------- record encoders --------------------------- *)
EncodeVersion == Encode("version", spec_version)

EncodeSystemScope(system_type) == Encode("system", SysColon \o system_type)

EncodePackage(name, version) == Encode("package", name \o <<"-">> \o version)

EncodeKernel(kernel_version) == Encode("kernel", kernel_version)

\* kv_string = ",".join([f"{k}={v}" for k, v in key_value.items()])
EncodeConfigFile(file_path, key_value) ==
    LET kv == [i \in DOMAIN key_value |->
                  key_value[i][1] \o <<"=">> \o key_value[i][2]]
    IN  Encode("config", file_path \o <<":">> \o Join(kv, <<",">>))

EncodePackageConfig(package, config_type, path, content) ==
    Encode("package_config",
           package \o <<":">> \o config_type \o <<":">> \o path \o <<":">> \o content)

EncodeRuntimeConfig(application, setting) ==
    Encode("runtime", application \o <<":">> \o setting)

EncodeTweak(component, tweak) == Encode("tweak", component \o <<":">> \o tweak)

EncodeSnapshotScope(scope) == Encode("scope", scope)

(* --------------------------- record decoders --------------------------- *)
\* re.match(r"(.+)-([^-]+)$", data): the split is at the last '-', with a
\* non-empty name holding no newline before it and a non-empty version after
LastDash(s) == CHOOSE i \in DOMAIN s : s[i] = "-" /\ \A j \in (i + 1)..Len(s) : s[j] # "-"

PackageMatch(s) ==
    /\ Contains(s, "-")
    /\ LastDash(s) > 1
    /\ LastDash(s) < Len(s)
    /\ \A j \in 1..(LastDash(s) - 1) : s[j] # LF

DecodePackage(line) ==
    LET d == Decode(line).data
    IN  IF PackageMatch(d)
        THEN [name    |-> SubSeq(d, 1, LastDash(d) - 1),
              version |-> SubSeq(d, LastDash(d) + 1, Len(d))]
        ELSE [name |-> d, version |-> Latest]

\* settings[k] = v for every "k=v" item of kv_string.split(',')
RECURSIVE ParseSettings(_, _)
ParseSettings(kvs, settings) ==
    IF kvs = <<>> THEN settings
    ELSE LET kv == Head(kvs)
         IN  IF Contains(kv, "=")
             THEN ParseSettings(Tail(kvs),
                                SetItem(settings, Split(kv, "=", 1)[1],
                                        Split(kv, "=", 1)[2]))
             ELSE ParseSettings(Tail(kvs), settings)

DecodeConfigFile(line) ==
    LET d     == Decode(line).data
        parts == Split(d, ":", 1)
    IN  IF Len(parts) < 2
        THEN [path |-> d, settings |-> <<>>]
        ELSE [path     |-> parts[1],
              settings |-> ParseSettings(Split(parts[2], ",", -1), <<>>)]

DecodePackageConfigRaises(line) == Len(Split(Decode(line).data, ":", 3)) < 4

DecodePackageConfig(line) ==
    LET parts == Split(Decode(line).data, ":", 3)
    IN  [package |-> parts[1], config_type |-> parts[2],
         path |-> parts[3], content |-> parts[4]]

DecodeRuntimeConfig(line) ==
    LET d     == Decode(line).data
        parts == Split(d, ":", 1)
    IN  IF Len(parts) < 2
        THEN [application |-> d, setting |-> <<>>]
        ELSE [application |-> parts[1], setting |-> parts[2]]

DecodeTweak(line) ==
    LET d     == Decode(line).data
        parts == Split(d, ":", 1)
    IN  IF Len(parts) < 2
        THEN [component |-> d, tweak |-> <<>>]
        ELSE [component |-> parts[1], tweak |-> parts[2]]

(* --------------------------- encode_snapshot --------------------------- *)
RECURSIVE EncodePackages(_)
EncodePackages(pkgs) ==
    IF pkgs = <<>> THEN <<>>
    ELSE LET name    == Get(Head(pkgs), "name", <<>>)
             version == Get(Head(pkgs), "version", Latest)
         IN  (IF name # <<>> THEN <<EncodePackage(name, version)>> ELSE <<>>)
                 \o EncodePackages(Tail(pkgs))

RECURSIVE EncodeConfigFiles(_)
EncodeConfigFiles(configs) ==
    IF configs = <<>> THEN <<>>
    ELSE LET path     == Get(Head(configs), "path", <<>>)
             settings == Get(Head(configs), "settings", <<>>)
         IN  (IF path # <<>> THEN <<EncodeConfigFile(path, settings)>> ELSE <<>>)
                 \o EncodeConfigFiles(Tail(configs))

RECURSIVE EncodePackageConfigs(_)
EncodePackageConfigs(configs) ==
    IF configs = <<>> THEN <<>>
    ELSE LET package     == Get(Head(configs), "package", <<>>)
             config_type == Get(Head(configs), "config_type", <<"c">>)
             path        == Get(Head(configs), "path", <<>>)
             content     == Get(Head(configs), "content", <<>>)
         IN  (IF package # <<>> /\ path # <<>>
              THEN <<EncodePackageConfig(package, config_type, path, content)>>
              ELSE <<>>)
                 \o EncodePackageConfigs(Tail(configs))

RECURSIVE EncodeTweaks(_)
EncodeTweaks(tweaks) ==
    IF tweaks = <<>> THEN <<>>
    ELSE LET component == Get(Head(tweaks), "component", <<>>)
             value     == Get(Head(tweaks), "tweak", <<>>)
         IN  (IF component # <<>> /\ value # <<>>
              THEN <<EncodeTweak(component, value)>> ELSE <<>>)
                 \o EncodeTweaks(Tail(tweaks))

RECURSIVE EncodeRuntimeConfigs(_)
EncodeRuntimeConfigs(configs) ==
    IF configs = <<>> THEN <<>>
    ELSE LET app     == Get(Head(configs), "application", <<>>)
             setting == Get(Head(configs), "setting", <<>>)
         IN  (IF app # <<>> /\ setting # <<>>
              THEN <<EncodeRuntimeConfig(app, setting)>> ELSE <<>>)
                 \o EncodeRuntimeConfigs(Tail(configs))

\* the record of a singleton fact, when the fact is there
EncodeIfPresent(sd, key, type) ==
    IF key \in DOMAIN sd THEN <<Encode(type, sd[key])>> ELSE <<>>

\* variant: the config files are written before the packages
EncodeSnapshotConfigsFirst(sd, include_version) ==
    (IF include_version THEN <<EncodeVersion>> ELSE <<>>)
    \o <<EncodeSystemScope(Get(sd, "system_type", Archlinux))>>
    \o EncodeIfPresent(sd, "scope", "scope")
    \o EncodeIfPresent(sd, "kernel", "kernel")
    \o EncodeIfPresent(sd, "cpu", "cpu")
    \o EncodeIfPresent(sd, "memory", "memory")
    \o EncodeIfPresent(sd, "gpu", "gpu")
    \o EncodeIfPresent(sd, "disk", "disk")
    \o EncodeConfigFiles(Get(sd, "config_files", <<>>))
    \o EncodePackages(Get(sd, "packages", <<>>))
    \o EncodePackageConfigs(Get(sd, "package_configs", <<>>))
    \o EncodeTweaks(Get(sd, "tweaks", <<>>))
    \o EncodeRuntimeConfigs(Get(sd, "runtime_configs", <<>>))

EncodeSnapshot(sd, include_version) ==
    (IF include_version THEN <<EncodeVersion>> ELSE <<>>)
    \o <<EncodeSystemScope(Get(sd, "system_type", Archlinux))>>
    \o EncodeIfPresent(sd, "scope", "scope")
    \o EncodeIfPresent(sd, "kernel", "kernel")
    \o EncodeIfPresent(sd, "cpu", "cpu")
    \o EncodeIfPresent(sd, "memory", "memory")
    \o EncodeIfPresent(sd, "gpu", "gpu")
    \o EncodeIfPresent(sd, "disk", "disk")
    \o EncodePackages(Get(sd, "packages", <<>>))
    \o EncodeConfigFiles(Get(sd, "config_files", <<>>))
    \o EncodePackageConfigs(Get(sd, "package_configs", <<>>))
    \o EncodeTweaks(Get(sd, "tweaks", <<>>))
    \o EncodeRuntimeConfigs(Get(sd, "runtime_configs", <<>>))

(* --------------------------- decode_snapshot --------------------------- *)
EmptySnapshot ==
    [system_type     |-> Archlinux,
     packages        |-> <<>>,
     config_files    |-> <<>>,
     package_configs |-> <<>>,
     tweaks          |-> <<>>,
     runtime_configs |-> <<>>,
     version         |-> spec_version]

\* variant: a record type decode_snapshot has no branch for raises as well
LineRaisesUnhandled(line) ==
    \/ DecodeRaises(line)
    \/ /\ Decode(line).type = "package_config"
       /\ DecodePackageConfigRaises(line)
    \/ Decode(line).type \in
          {"service", "input", "output", "network", "command", "build",
           "error", "alias", "hook"}

\* the ValueError decode_snapshot catches for a line: no prefix matches, or a
\* package_config record with fewer than 4 fields
LineRaises(line) ==
    \/ DecodeRaises(line)
    \/ /\ Decode(line).type = "package_config"
       /\ DecodePackageConfigRaises(line)

\* snapshot[key].append(entry)
AppendTo(snap, key, entry) == [snap EXCEPT ![key] = Append(@, entry)]

FileEntry(d) ==
    LET parts == Split(d, ":", 1)
    IN  [path |-> parts[1],
         hash |-> IF Len(parts) > 1 THEN parts[2] ELSE PyNone]

\* the body of the loop of decode_snapshot for one line: a line that raises
\* ValueError is skipped
DecodeLine(snap, line) ==
    IF DecodeRaises(line) THEN snap
    ELSE LET t == Decode(line).type
             d == Decode(line).data
         IN  CASE t = "version" -> Put(snap, "version", d)
               [] t = "system" ->
                      IF StartsWith(d, SysColon)
                      THEN Put(snap, "system_type", SubSeq(d, 5, Len(d)))
                      ELSE snap
               [] t = "scope" -> Put(snap, "scope", d)
               [] t = "package" -> AppendTo(snap, "packages", DecodePackage(line))
               [] t \in {"kernel", "cpu", "memory", "gpu", "disk"} -> Put(snap, t, d)
               [] t = "config" -> AppendTo(snap, "config_files", DecodeConfigFile(line))
               [] t = "package_config" ->
                      IF DecodePackageConfigRaises(line) THEN snap
                      ELSE AppendTo(snap, "package_configs", DecodePackageConfig(line))
               [] t = "tweak" -> AppendTo(snap, "tweaks", DecodeTweak(line))
               [] t = "runtime" ->
                      AppendTo(snap, "runtime_configs", DecodeRuntimeConfig(line))
               [] t = "file" ->
                      Put(snap, "files",
                          Append(Get(snap, "files", <<>>), FileEntry(d)))
               [] OTHER -> snap

\* variant: the loop over the lines ends at the first line that raises
RECURSIVE DecodeLinesUntilError(_, _)
DecodeLinesUntilError(snap, lines) ==
    IF lines = <<>> \/ LineRaises(Head(lines)) THEN snap
    ELSE DecodeLinesUntilError(DecodeLine(snap, Head(lines)), Tail(lines))

RECURSIVE DecodeLines(_, _)
DecodeLines(snap, lines) ==
    IF lines = <<>> THEN snap
    ELSE DecodeLines(DecodeLine(snap, Head(lines)), Tail(lines))

DecodeSnapshot(lines) == DecodeLines(EmptySnapshot, lines)

\* print(f"Warning: {e}") for the ValueError a line raises
Warning(line) ==
    IF DecodeRaises(line)
    THEN <<"Warning: ", "Invalid ClaudeScript format: ", line>>
    ELSE <<"Warning: ", "Invalid package config format: ", Decode(line).data>>

\* what decode_snapshot(lines) prints
RECURSIVE DecodeWarnings(_)
DecodeWarnings(lines) ==
    IF lines = <<>> THEN <<>>
    ELSE (IF LineRaises(Head(lines)) THEN <<Warning(Head(lines))>> ELSE <<>>)
             \o DecodeWarnings(Tail(lines))

\* == on two lists of config entries: same paths, settings equal as mappings
ConfigsEq(c1, c2) ==
    /\ Len(c1) = Len(c2)
    /\ \A i \in DOMAIN c1 :
          /\ DOMAIN c1[i] = DOMAIN c2[i]
          /\ Get(c1[i], "path", <<>>) = Get(c2[i], "path", <<>>)
          /\ DictEq(Get(c1[i], "settings", <<>>), Get(c2[i], "settings", <<>>))

\* == on two snapshot dicts
SnapshotEq(s1, s2) ==
    /\ DOMAIN s1 = DOMAIN s2
    /\ \A k \in DOMAIN s1 \ {"config_files"} : s1[k] = s2[k]
    /\ "config_files" \in DOMAIN s1 =>
          ConfigsEq(s1["config_files"], s2["config_files"])

(* -------------------------- compare_snapshots -------------------------- *)
Whitespace == {" ", LF, CR}

\* line.strip()
RECURSIVE LStrip(_)
LStrip(s) == IF s # <<>> /\ Head(s) \in Whitespace THEN LStrip(Tail(s)) ELSE s

RECURSIVE RStrip(_)
RStrip(s) ==
    IF s # <<>> /\ s[Len(s)] \in Whitespace THEN RStrip(SubSeq(s, 1, Len(s) - 1)) ELSE s

Strip(s) == RStrip(LStrip(s))

\* [line.strip() for line in f if line.strip()]
RECURSIVE StripLines(_)
StripLines(lines) ==
    IF lines = <<>> THEN <<>>
    ELSE (IF Strip(Head(lines)) # <<>> THEN <<Strip(Head(lines))>> ELSE <<>>)
             \o StripLines(Tail(lines))

ReadSnapshot(path) == DecodeSnapshot(StripLines(files[path]))

\* what decoding the snapshot of a file prints
ReadWarnings(path) == DecodeWarnings(StripLines(files[path]))

\* the lists list(a_set) can be: the set's members once each, in any order
Orders(S) ==
    {q \in [1..Cardinality(S) -> S] : \A i, j \in 1..Cardinality(S) : q[i] = q[j] => i = j}

PackageNames(snap) == {snap["packages"][i]["name"] : i \in DOMAIN snap["packages"]}

ConfigPaths(snap) == {snap["config_files"][i]["path"] : i \in DOMAIN snap["config_files"]}

\* {config['path']: config['settings'] for config in configs if config['path'] in common}
RECURSIVE ConfigDict(_, _, _)
ConfigDict(configs, common, acc) ==
    IF configs = <<>> THEN acc
    ELSE ConfigDict(Tail(configs), common,
                    IF Head(configs)["path"] \in common
                    THEN SetItem(acc, Head(configs)["path"], Head(configs)["settings"])
                    ELSE acc)

\* variant: a package of s2 counts as added unless s1 holds it with its version
AddedPackagesByVersion(s1, s2) ==
    {s2["packages"][i]["name"] :
        i \in {j \in DOMAIN s2["packages"] :
                  \A k \in DOMAIN s1["packages"] :
                      s1["packages"][k] # s2["packages"][j]}}

AddedPackages(s1, s2) == PackageNames(s2) \ PackageNames(s1)

\* variant: the removed names computed as the added ones are
RemovedPackagesAsAdded(s1, s2) == PackageNames(s2) \ PackageNames(s1)

RemovedPackages(s1, s2) == PackageNames(s1) \ PackageNames(s2)

AddedConfigs(s1, s2) == ConfigPaths(s2) \ ConfigPaths(s1)

RemovedConfigs(s1, s2) == ConfigPaths(s1) \ ConfigPaths(s2)

Reverse(q) == [i \in 1..Len(q) |-> q[Len(q) + 1 - i]]

\* variant: config1_dict keeps the first entry of a path, config2_dict the last
ChangedConfigsFirst(s1, s2) ==
    LET common       == ConfigPaths(s1) \cap ConfigPaths(s2)
        config1_dict == ConfigDict(Reverse(s1["config_files"]), common, <<>>)
        config2_dict == ConfigDict(s2["config_files"], common, <<>>)
    IN  {path \in common :
            ~DictEq(Lookup(config1_dict, path), Lookup(config2_dict, path))}

\* the common paths whose settings config1_dict and config2_dict hold differ
ChangedConfigs(s1, s2) ==
    LET common       == ConfigPaths(s1) \cap ConfigPaths(s2)
        config1_dict == ConfigDict(s1["config_files"], common, <<>>)
        config2_dict == ConfigDict(s2["config_files"], common, <<>>)
    IN  {path \in common :
            ~DictEq(Lookup(config1_dict, path), Lookup(config2_dict, path))}

\* variant: a difference in the tweaks is reported
ChangedTweaksCompared(s1, s2) ==
    IF s1["tweaks"] = s2["tweaks"] THEN <<>> ELSE <<"tweaks">>

\* 'changed_tweaks': [], which nothing is ever added to
ChangedTweaks(s1, s2) == <<>>

Summary(d) ==
    [packages |-> [added   |-> Len(d.added_packages),
                   removed |-> Len(d.removed_packages)],
     configs  |-> [added   |-> Len(d.added_configs),
                   changed |-> Len(d.changed_configs),
                   removed |-> Len(d.removed_configs)]]

\* the differences compare_snapshots can build from the two decoded
\* snapshots: the lists made from sets come in any order
Differences(s1, s2) ==
    LET lists ==
            {[added_packages   |-> ap,
              removed_packages |-> rp,
              added_configs    |-> ac,
              changed_configs  |-> cc,
              removed_configs  |-> rc,
              changed_tweaks   |-> ChangedTweaks(s1, s2)] :
                ap \in Orders(AddedPackages(s1, s2)),
                rp \in Orders(RemovedPackages(s1, s2)),
                ac \in Orders(AddedConfigs(s1, s2)),
                cc \in Orders(ChangedConfigs(s1, s2)),
                rc \in Orders(RemovedConfigs(s1, s2))}
    IN  {[added_packages   |-> d.added_packages,
          removed_packages |-> d.removed_packages,
          added_configs    |-> d.added_configs,
          changed_configs  |-> d.changed_configs,
          removed_configs  |-> d.removed_configs,
          changed_tweaks   |-> d.changed_tweaks,
          summary          |-> Summary(d)] : d \in lists}

\* what compare_snapshots(snapshot1_path, snapshot2_path) can return
CompareSnapshots(snapshot1_path, snapshot2_path) ==
    Differences(ReadSnapshot(snapshot1_path), ReadSnapshot(snapshot2_path))

(* ----------------------- create_diff_claudescript ---------------------- *)
\* variant: the package commands carry the name alone
RECURSIVE PackageCommandsBare(_)
PackageCommandsBare(names) ==
    IF names = <<>> THEN <<>>
    ELSE <<Encode("package", Head(names))>> \o PackageCommandsBare(Tail(names))

RECURSIVE PackageCommands(_)
PackageCommands(names) ==
    IF names = <<>> THEN <<>>
    ELSE <<EncodePackage(Head(names), Latest)>> \o PackageCommands(Tail(names))

\* variant: the loop over the configs without its break
EveryConfigCommand(configs, config_path) ==
    LET at == SelectSeq(configs, LAMBDA config : config["path"] = config_path)
    IN  [i \in 1..Len(at) |-> EncodeConfigFile(at[i]["path"], at[i]["settings"])]

\* the record of the first config of the after snapshot with the path
FirstConfigCommand(configs, config_path) ==
    LET at == {i \in DOMAIN configs : configs[i]["path"] = config_path}
    IN  IF at = {} THEN <<>>
        ELSE LET i == CHOOSE i \in at : \A j \in at : i <= j
             IN  <<EncodeConfigFile(configs[i]["path"], configs[i]["settings"])>>

RECURSIVE ConfigCommands(_, _)
ConfigCommands(paths, configs) ==
    IF paths = <<>> THEN <<>>
    ELSE FirstConfigCommand(configs, Head(paths)) \o ConfigCommands(Tail(paths), configs)

ScopeDiff == <<"d", "i", "f", "f">>

\* the commands create_diff_claudescript builds from what compare_snapshots returned
DiffCommands(diff, after_snapshot) ==
    <<EncodeVersion, EncodeSnapshotScope(ScopeDiff)>>
    \o PackageCommands(diff.added_packages)
    \o ConfigCommands(diff.added_configs \o diff.changed_configs,
                      ReadSnapshot(after_snapshot)["config_files"])

CreateDiffClaudescript(before_snapshot, after_snapshot) ==
    {DiffCommands(diff, after_snapshot) :
        diff \in CompareSnapshots(before_snapshot, after_snapshot)}

(* ---------------------------- apply_snapshot --------------------------- *)
\* the home directory os.path.expanduser puts for a leading "~"
Home == <<"/", "h">>

Expanduser(path) ==
    IF path # <<>> /\ Head(path) = "~" /\ (Len(path) = 1 \/ path[2] = "/")
    THEN Home \o Tail(path)
    ELSE path

RECURSIVE RStripSlash(_)
RStripSlash(s) ==
    IF s # <<>> /\ s[Len(s)] = "/" THEN RStripSlash(SubSeq(s, 1, Len(s) - 1)) ELSE s

\* os.path.dirname: up to the last "/", without trailing slashes unless it is
\* all slashes
Dirname(path) ==
    LET at   == {i \in DOMAIN path : path[i] = "/"}
        head == IF at = {} THEN <<>>
                ELSE SubSeq(path, 1, CHOOSE i \in at : \A j \in at : j <= i)
    IN  IF RStripSlash(head) = <<>> THEN head ELSE RStripSlash(head)

\* the directories os.makedirs(name) makes sure of: name and those above it
RECURSIVE Ancestors(_)
Ancestors(name) ==
    IF name = <<>> THEN {}
    ELSE IF Dirname(name) = name THEN {name}
    ELSE {name} \cup Ancestors(Dirname(name))

\* os.makedirs(name, exist_ok=True) raises for an empty name and for a
\* directory it cannot make
MakedirsRaises(name, fs) ==
    \/ name = <<>>
    \/ \E dir \in Ancestors(name) : dir \notin fs /\ dir \in unwritable

MakedirsError(name) == IF name = <<>> THEN "FileNotFoundError" ELSE "PermissionError"

\* self._is_package_installed(package_name)
IsPackageInstalled(package_name) == package_name \in installed

NoResults == [changes |-> <<>>, errors |-> <<>>, warnings |-> <<>>]

\* results[key].append(message); a message is the parts of its f-string
AddTo(res, key, message) == [res EXCEPT ![key] = Append(@, message)]

\* variant: a package already installed is reported as a change too
ApplyPackageAlways(res, package) ==
    LET pkg_name == Get(package, "name", <<>>)
    IN  IF pkg_name = <<>> THEN res
        ELSE IF dry_run
        THEN AddTo(res, "changes", <<"Would install package: ", pkg_name>>)
        ELSE AddTo(AddTo(res, "changes", <<"Installing package: ", pkg_name>>),
                   "changes", <<"Installed ", pkg_name>>)

\* the body of the loop over snapshot['packages']
ApplyPackage(res, package) ==
    LET pkg_name == Get(package, "name", <<>>)
    IN  IF pkg_name = <<>> THEN res
        ELSE IF ~IsPackageInstalled(pkg_name)
        THEN IF dry_run
             THEN AddTo(res, "changes", <<"Would install package: ", pkg_name>>)
             ELSE AddTo(AddTo(res, "changes", <<"Installing package: ", pkg_name>>),
                        "changes", <<"Installed ", pkg_name>>)
        ELSE AddTo(res, "warnings", <<"Package already installed: ", pkg_name>>)

\* variant: the parent directories are made under dry-run too
ApplyConfigMakingDirs(st, config) ==
    LET path          == Get(config, "path", <<>>)
        expanded_path == Expanduser(path)
        made          == st.existing \cup Ancestors(Dirname(expanded_path))
    IN  IF path = <<>> THEN st
        ELSE [results  |-> AddTo(st.results, "changes",
                                 <<"Would create configuration: ", path>>),
              existing |-> made]

\* the body of the loop over snapshot['config_files']; st is the results and
\* the paths that exist so far
ApplyConfig(st, config) ==
    LET path          == Get(config, "path", <<>>)
        expanded_path == Expanduser(path)
        res           == st.results
    IN  IF path = <<>> THEN st
        ELSE IF expanded_path \in st.existing
        THEN IF dry_run
             THEN [st EXCEPT !.results =
                      AddTo(res, "changes", <<"Would update configuration: ", path>>)]
             ELSE [st EXCEPT !.results =
                      AddTo(AddTo(res, "changes", <<"Updating configuration: ", path>>),
                            "changes", <<"Updated ", path>>)]
        ELSE IF dry_run
        THEN [st EXCEPT !.results =
                 AddTo(res, "changes", <<"Would create configuration: ", path>>)]
        ELSE IF MakedirsRaises(Dirname(expanded_path), st.existing)
        THEN [st EXCEPT !.results =
                 AddTo(res, "errors",
                       <<"Failed to create ", path, ": ",
                         MakedirsError(Dirname(expanded_path))>>)]
        ELSE [results  |-> AddTo(AddTo(res, "changes",
                                       <<"Creating configuration: ", path>>),
                                 "changes", <<"Created ", path>>),
              existing |-> st.existing \cup Ancestors(Dirname(expanded_path))]

\* the body of the loop over snapshot['package_configs']
ApplyPackageConfig(res, pkg_config) ==
    LET package == Get(pkg_config, "package", <<>>)
        path    == Get(pkg_config, "path", <<>>)
    IN  IF package = <<>> \/ path = <<>> THEN res
        ELSE IF ~IsPackageInstalled(package)
        THEN AddTo(res, "warnings",
                   <<"Package ", package, " not installed, skipping its configuration">>)
        ELSE IF dry_run
        THEN AddTo(res, "changes", <<"Would configure ", package, " at ", path>>)
        ELSE AddTo(AddTo(res, "changes", <<"Configuring ", package, " at ", path>>),
                   "changes", <<"Configured ", package>>)

\* the body of the loop over snapshot['tweaks']
ApplyTweak(res, tweak) ==
    LET component   == Get(tweak, "component", <<>>)
        tweak_value == Get(tweak, "tweak", <<>>)
    IN  IF component = <<>> \/ tweak_value = <<>> THEN res
        ELSE IF dry_run
        THEN AddTo(res, "changes",
                   <<"Would apply tweak to ", component, ": ", tweak_value>>)
        ELSE AddTo(AddTo(res, "changes",
                         <<"Applying tweak to ", component, ": ", tweak_value>>),
                   "changes", <<"Applied tweak to ", component>>)

RECURSIVE ApplyPackages(_, _)
ApplyPackages(res, packages) ==
    IF packages = <<>> THEN res
    ELSE ApplyPackages(ApplyPackage(res, Head(packages)), Tail(packages))

\* variant: the loop over the config files ends at the first failure
RECURSIVE ApplyConfigsUntilError(_, _)
ApplyConfigsUntilError(st, configs) ==
    IF configs = <<>> THEN st
    ELSE LET next == ApplyConfig(st, Head(configs))
         IN  IF next.results.errors # st.results.errors THEN next
             ELSE ApplyConfigsUntilError(next, Tail(configs))

RECURSIVE ApplyConfigs(_, _)
ApplyConfigs(st, configs) ==
    IF configs = <<>> THEN st
    ELSE ApplyConfigs(ApplyConfig(st, Head(configs)), Tail(configs))

RECURSIVE ApplyPackageConfigs(_, _)
ApplyPackageConfigs(res, pkg_configs) ==
    IF pkg_configs = <<>> THEN res
    ELSE ApplyPackageConfigs(ApplyPackageConfig(res, Head(pkg_configs)),
                             Tail(pkg_configs))

RECURSIVE ApplyTweaks(_, _)
ApplyTweaks(res, tweaks) ==
    IF tweaks = <<>> THEN res
    ELSE ApplyTweaks(ApplyTweak(res, Head(tweaks)), Tail(tweaks))

\* apply_snapshot(snapshot_path, dry_run): the results it returns and the
\* paths that exist when it has returned
ApplySnapshot(snapshot_path) ==
    LET snap     == ReadSnapshot(snapshot_path)
        packaged == ApplyPackages(NoResults, snap["packages"])
        st       == ApplyConfigs([results |-> packaged, existing |-> existing],
                                 snap["config_files"])
        pkgconf  == ApplyPackageConfigs(st.results, snap["package_configs"])
    IN  [results  |-> ApplyTweaks(pkgconf, snap["tweaks"]),
         existing |-> st.existing]

(* ------------------------ codec: specification ------------------------- *)
PayloadChars == {BS, "n", "r", ":", LF, CR, "a"}
Payloads == StrUpTo(PayloadChars, MaxPayloadLen)
UnknownTypes == {"bogus"}

None == [ok |-> FALSE, none |-> TRUE]

Op(name, args) == [name |-> name, args |-> args]

CodecIdle == data_type = "version" /\ data = <<>> /\ claudescript = <<>> /\ decoded = None
SnapIdle ==
    /\ snapshot_data = None /\ claudescript_lines = <<>>
    /\ encoded_lines = <<>> /\ snapshot = None
DiffIdle ==
    files = None /\ differences = None /\ previous = None /\ commands = <<>>
ApplyIdle ==
    /\ installed = {} /\ existing = {} /\ unwritable = {}
    /\ dry_run = TRUE /\ results = None
RunnerIdle == script = <<>> /\ called = None
ThreadsIdle == pc = <<>> /\ invocation = <<>> /\ frames = <<>>

InitCodec ==
    /\ prefix_map = PREFIX_MAP
    /\ spec_version = SPEC_VERSION
    /\ stdout = <<>>
    /\ op = Op("init", <<>>)
    /\ data_type \in RegisteredTypes \cup UnknownTypes
    /\ data \in Payloads
    /\ claudescript = <<>>
    /\ decoded = None
    /\ SnapIdle /\ DiffIdle /\ ApplyIdle /\ RunnerIdle /\ ThreadsIdle

EncodeOp ==
    /\ op.name = "init"
    /\ IF EncodeRaises(data_type)
       THEN /\ op' = Op("encode_raised", <<>>)
            /\ UNCHANGED claudescript
       ELSE /\ op' = Op("encode", <<>>)
            /\ claudescript' = Encode(data_type, data)
    /\ UNCHANGED <<prefix_map, spec_version, data_type, data, decoded,
                   snapVars, diffVars, applyVars, stdout, runnerVars,
                   threadVars>>

DecodeOp ==
    /\ op.name = "encode"
    /\ op' = Op("decode", <<>>)
    /\ decoded' = DecodeResult(claudescript)
    /\ UNCHANGED <<prefix_map, spec_version, data_type, data, claudescript,
                   snapVars, diffVars, applyVars, stdout, runnerVars,
                   threadVars>>

NextCodec == EncodeOp \/ DecodeOp

SpecCodec == InitCodec /\ [][NextCodec]_vars

(* C1: for every registered type and every payload, decode(encode(type,   *)
(* payload)) returns exactly (type, payload).                              *)
C1_RoundTrip ==
    op.name = "decode" =>
        /\ decoded.ok
        /\ decoded.type = data_type
        /\ decoded.data = data

(* ----------------------- snapshot: specification ----------------------- *)
\* the sequences over S of length at most n
RECURSIVE SeqUpTo(_, _)
SeqUpTo(S, n) ==
    IF n = 0 THEN {<<>>}
    ELSE LET shorter == SeqUpTo(S, n - 1)
         IN  shorter \cup {Append(q, x) : q \in shorter, x \in S}

Setting(k, v) == <<k, v>>

FactNames == {<<>>, <<"a">>, <<"b">>}
FactVersions == {<<"1">>, <<"1", "-", "2">>}
PackageFacts ==
    {[name |-> n, version |-> v] : n \in FactNames, v \in FactVersions}
        \cup {[name |-> <<"a">>]}

FactPaths == {<<>>, <<"x">>}
FactSettings ==
    { <<>>,
      <<Setting(<<"k">>, <<"1">>)>>,
      <<Setting(<<"k">>, <<"1", ",", "2">>)>>,
      <<Setting(<<"k">>, <<"1">>), Setting(<<"j">>, <<"2">>)>> }
ConfigFacts == {[path |-> p, settings |-> st] : p \in FactPaths, st \in FactSettings}

\* the facts besides the packages and the config files: none, some, or all
\* of them
BaseFacts ==
    { <<>>,
      [kernel |-> <<"6">>, memory |-> <<"8">>],
      [system_type     |-> <<"x">>,
       scope           |-> <<"f">>,
       kernel          |-> <<"6">>,
       cpu             |-> <<"i">>,
       memory          |-> <<"8">>,
       gpu             |-> <<"g">>,
       disk            |-> <<"d">>,
       package_configs |-> <<[package |-> <<"a">>, config_type |-> <<"c">>,
                              path |-> <<"x">>, content |-> <<"y">>]>>,
       tweaks          |-> <<[component |-> <<"s">>, tweak |-> <<"k", "=", "1">>]>>,
       runtime_configs |-> <<[application |-> <<"v">>, setting |-> <<"n">>]>>] }

\* the facts with at most MaxItems packages and config files in all
Facts ==
    UNION { { Put(Put(base, "packages", pkgs), "config_files", cfgs) :
                base \in BaseFacts,
                cfgs \in SeqUpTo(ConfigFacts, MaxItems - Len(pkgs)) } :
            pkgs \in SeqUpTo(PackageFacts, MaxItems) }

SnapLines ==
    { <<"v", ":", "2">>,
      <<"s", ":", "s", "y", "s", BS, ":", "x">>,
      <<"s", ":", "x">>,
      <<"s", "c", "o", "p", "e", ":", "f">>,
      <<"p", ":", "a", "-", "1">>,
      <<"p", ":", "a">>,
      <<"k", ":", "6">>,
      <<"c", ":", "i">>,
      <<"m", ":", "8">>,
      <<"g", ":", "g">>,
      <<"d", ":", "d">>,
      <<"c", "f", ":", "x", BS, ":", "k", "=", "1">>,
      <<"c", "f", ":", "x">>,
      <<"p", "k", ":", "a", BS, ":", "c", BS, ":", "x", BS, ":", "y">>,
      <<"p", "k", ":", "a">>,
      <<"t", ":", "s", BS, ":", "k", "=", "1">>,
      <<"t", ":", "s">>,
      <<"r", ":", "v", BS, ":", "n">>,
      <<"f", ":", "x", BS, ":", "h">>,
      <<"f", ":", "x">>,
      <<"s", "v", ":", "x">>,
      <<"h", ":", "x">>,
      <<"z", "z", ":", "x">> }

InitSnapshot ==
    /\ prefix_map = PREFIX_MAP
    /\ spec_version = SPEC_VERSION
    /\ stdout = <<>>
    /\ \/ /\ op = Op("facts", <<>>)
          /\ snapshot_data \in Facts
          /\ claudescript_lines = <<>>
       \/ /\ op = Op("lines", <<>>)
          /\ snapshot_data = None
          /\ claudescript_lines \in SeqUpTo(SnapLines, MaxSnapLines)
    /\ encoded_lines = <<>>
    /\ snapshot = None
    /\ CodecIdle /\ DiffIdle /\ ApplyIdle /\ RunnerIdle /\ ThreadsIdle

\* encode_snapshot(snapshot_data, include_version)
EncodeSnapshotOp ==
    /\ op.name = "facts"
    /\ \E include_version \in BOOLEAN :
          /\ encoded_lines' = EncodeSnapshot(snapshot_data, include_version)
          /\ op' = Op("encode_snapshot", <<include_version>>)
    /\ UNCHANGED <<prefix_map, spec_version, snapshot_data,
                   claudescript_lines, snapshot, codecVars, diffVars,
                   applyVars, stdout, runnerVars, threadVars>>

\* decode_snapshot(claudescript_lines)
DecodeSnapshotOp ==
    /\ op.name = "lines"
    /\ snapshot' = DecodeSnapshot(claudescript_lines)
    /\ stdout' = stdout \o DecodeWarnings(claudescript_lines)
    /\ op' = Op("decode_snapshot", <<>>)
    /\ UNCHANGED <<prefix_map, spec_version, snapshot_data,
                   claudescript_lines, encoded_lines, codecVars, diffVars,
                   applyVars, runnerVars, threadVars>>

\* encode_snapshot(snapshot) on the snapshot decode_snapshot returned
ReencodeSnapshotOp ==
    /\ op.name = "decode_snapshot"
    /\ snapshot_data' = snapshot
    /\ encoded_lines' = EncodeSnapshot(snapshot, TRUE)
    /\ op' = Op("reencode_snapshot", <<>>)
    /\ UNCHANGED <<prefix_map, spec_version, claudescript_lines, snapshot,
                   codecVars, diffVars, applyVars, stdout, runnerVars,
                   threadVars>>

\* decode_snapshot(encoded_lines) on the lines encode_snapshot returned
DecodeEncodedOp ==
    /\ op.name \in {"encode_snapshot", "reencode_snapshot"}
    /\ snapshot' = DecodeSnapshot(encoded_lines)
    /\ stdout' = stdout \o DecodeWarnings(encoded_lines)
    /\ op' = Op(IF op.name = "encode_snapshot" THEN "decode_encoded" ELSE "redecode", <<>>)
    /\ UNCHANGED <<prefix_map, spec_version, snapshot_data,
                   claudescript_lines, encoded_lines, codecVars, diffVars,
                   applyVars, runnerVars, threadVars>>

NextSnapshot ==
    EncodeSnapshotOp \/ DecodeSnapshotOp \/ ReencodeSnapshotOp \/ DecodeEncodedOp

SpecSnapshot == InitSnapshot /\ [][NextSnapshot]_vars

\* a well-formed list of lines: decode_snapshot raises on none of them
WellFormed(lines) == \A i \in DOMAIN lines : ~LineRaises(lines[i])

(* C2: for any well-formed list of lines, decode_snapshot(encode_snapshot( *)
(* decode_snapshot(lines))) equals decode_snapshot(lines).                 *)
C2_Idempotent ==
    (op.name = "redecode" /\ WellFormed(claudescript_lines)) =>
        SnapshotEq(snapshot, snapshot_data)

Range(q) == {q[i] : i \in DOMAIN q}

\* packages that carry a name and a version, the names non-empty and distinct
ProperPackages(pkgs) ==
    /\ \A i \in DOMAIN pkgs :
          /\ DOMAIN pkgs[i] = {"name", "version"}
          /\ pkgs[i]["name"] # <<>>
    /\ \A i, j \in DOMAIN pkgs : pkgs[i]["name"] = pkgs[j]["name"] => i = j

(* C3: for any list of packages with non-empty, distinct names,           *)
(* decode_snapshot(encode_snapshot(facts)) yields the same set of         *)
(* packages, each with its original name and version.                     *)
C3_PackagesRoundTrip ==
    (op.name = "decode_encoded" /\ ProperPackages(snapshot_data["packages"])) =>
        Range(snapshot["packages"]) = Range(snapshot_data["packages"])

HasPath(config) == Get(config, "path", <<>>) # <<>>

(* C4: for any config entry with a non-empty path and a settings mapping, *)
(* decode_snapshot(encode_snapshot(facts)) yields a config entry with the *)
(* same path and an equal settings mapping, also when a value holds a     *)
(* comma.                                                                 *)
C4_ConfigsRoundTrip ==
    op.name = "decode_encoded" =>
        ConfigsEq(snapshot["config_files"],
                  SelectSeq(snapshot_data["config_files"], HasPath))

(* ------------------------- differ: specification ----------------------- *)
DiffLines ==
    { <<"p", ":", "a", "-", "1">>,
      <<"p", ":", "a", "-", "2">>,
      <<"p", ":", "b", "-", "1", " ">>,
      <<"c", "f", ":", "x", BS, ":", "k", "=", "1">>,
      <<"c", "f", ":", "x", BS, ":", "k", "=", "1", ",", "j", "=", "2">>,
      <<"c", "f", ":", "x", BS, ":", "j", "=", "2", ",", "k", "=", "1">>,
      <<"c", "f", ":", "x", BS, ":", "j", "=", "2", ",", "k", "=", "2">>,
      <<"c", "f", ":", "y", BS, ":", "k", "=", "1">>,
      <<"t", ":", "s", BS, ":", "k", "=", "1">>,
      <<"k", ":", "6">> }

SnapshotPaths == {"A", "B"}

\* the config lines of path x with the settings k=1 and k=2
RepeatedLines ==
    { <<"c", "f", ":", "x", BS, ":", "k", "=", "1">>,
      <<"c", "f", ":", "x", BS, ":", "k", "=", "2">> }

\* two snapshot files of at most MaxDiffLines lines in all, and the files
\* where one snapshot holds the path x once and the other holds it twice
DiffFiles ==
    UNION { { [path \in SnapshotPaths |-> IF path = "A" THEN a ELSE b] :
                b \in SeqUpTo(DiffLines, MaxDiffLines - Len(a)) } :
            a \in SeqUpTo(DiffLines, MaxDiffLines) }
    \cup { [path \in SnapshotPaths |-> IF path = "A" THEN <<a>> ELSE <<b1, b2>>] :
              a \in RepeatedLines, b1 \in RepeatedLines, b2 \in RepeatedLines }

InitDiff ==
    /\ prefix_map = PREFIX_MAP
    /\ spec_version = SPEC_VERSION
    /\ stdout = <<>>
    /\ op = Op("init", <<>>)
    /\ files \in DiffFiles
    /\ differences = None
    /\ previous = None
    /\ commands = <<>>
    /\ CodecIdle /\ SnapIdle /\ ApplyIdle /\ RunnerIdle /\ ThreadsIdle

\* compare_snapshots(snapshot1_path, snapshot2_path); a call is followed by
\* one more, with the two paths exchanged
CompareSnapshotsOp ==
    /\ op.name \in {"init", "compare_snapshots"}
    /\ previous = None
    /\ \E snapshot1_path \in SnapshotPaths, snapshot2_path \in SnapshotPaths :
          /\ op.name = "compare_snapshots" =>
                <<snapshot1_path, snapshot2_path>> = <<op.args[2], op.args[1]>>
          /\ differences' \in CompareSnapshots(snapshot1_path, snapshot2_path)
          /\ op' = Op("compare_snapshots", <<snapshot1_path, snapshot2_path>>)
          /\ stdout' = stdout \o ReadWarnings(snapshot1_path)
                              \o ReadWarnings(snapshot2_path)
    /\ previous' = IF op.name = "compare_snapshots"
                   THEN [args |-> op.args, result |-> differences]
                   ELSE None
    /\ commands' = <<>>
    /\ UNCHANGED <<prefix_map, spec_version, files, codecVars, snapVars,
                   applyVars, runnerVars, threadVars>>

\* create_diff_claudescript(before_snapshot, after_snapshot), output_path=None
CreateDiffOp ==
    /\ op.name = "init"
    /\ \E before_snapshot \in SnapshotPaths, after_snapshot \in SnapshotPaths :
          /\ commands' \in CreateDiffClaudescript(before_snapshot, after_snapshot)
          /\ op' = Op("create_diff_claudescript", <<before_snapshot, after_snapshot>>)
          /\ stdout' = stdout \o ReadWarnings(before_snapshot)
                              \o ReadWarnings(after_snapshot)
                              \o ReadWarnings(after_snapshot)
    /\ UNCHANGED <<prefix_map, spec_version, files, differences, previous,
                   codecVars, snapVars, applyVars, runnerVars, threadVars>>

NextDiff == CompareSnapshotsOp \/ CreateDiffOp

SpecDiff == InitDiff /\ [][NextDiff]_vars

\* the names of the packages and the paths of the config files of a snapshot
NamesIn(snap) == {snap["packages"][i]["name"] : i \in DOMAIN snap["packages"]}
PathsIn(snap) == {snap["config_files"][i]["path"] : i \in DOMAIN snap["config_files"]}

\* the settings mapping of a path in a snapshot: that of its last entry
SettingsIn(snap, config_path) ==
    LET configs == snap["config_files"]
        at      == {i \in DOMAIN configs : configs[i]["path"] = config_path}
    IN  AsMap(configs[CHOOSE i \in at : \A j \in at : j <= i]["settings"])

NoRepeats(q) == \A i, j \in DOMAIN q : q[i] = q[j] => i = j

(* C5: compare_snapshots computes added_packages as the names in after    *)
(* minus the names in before and removed_packages as the names in before  *)
(* minus the names in after, by name only: a package in both snapshots    *)
(* under one name with different versions is in neither list.             *)
C5_NameOnlyDiff ==
    op.name = "compare_snapshots" =>
        LET before == ReadSnapshot(op.args[1])
            after  == ReadSnapshot(op.args[2])
        IN  /\ Range(differences.added_packages) = NamesIn(after) \ NamesIn(before)
            /\ Range(differences.removed_packages) = NamesIn(before) \ NamesIn(after)
            /\ NoRepeats(differences.added_packages)
            /\ NoRepeats(differences.removed_packages)
            /\ \A i \in DOMAIN before["packages"], j \in DOMAIN after["packages"] :
                  before["packages"][i]["name"] = after["packages"][j]["name"] =>
                      before["packages"][i]["name"] \notin
                          Range(differences.added_packages)
                              \cup Range(differences.removed_packages)

\* compare_snapshots ran on two snapshots that hold one name with two versions
C5_Witness ==
    /\ op.name = "compare_snapshots"
    /\ op.args[1] # op.args[2]
    /\ LET before == ReadSnapshot(op.args[1])
           after  == ReadSnapshot(op.args[2])
       IN  \E i \in DOMAIN before["packages"], j \in DOMAIN after["packages"] :
              /\ before["packages"][i]["name"] = after["packages"][j]["name"]
              /\ before["packages"][i]["version"] # after["packages"][j]["version"]
    /\ differences.added_packages = <<>>
    /\ differences.removed_packages = <<>>

(* C6: for any two snapshots A and B, the added_packages of               *)
(* compare_snapshots(A, B) is the same set as the removed_packages of     *)
(* compare_snapshots(B, A).                                               *)
C6_DiffSymmetry ==
    (/\ op.name = "compare_snapshots"
     /\ previous # None
     /\ previous.args = <<op.args[2], op.args[1]>>) =>
        Range(differences.added_packages) = Range(previous.result.removed_packages)

\* compare_snapshots(A, B) ran, then compare_snapshots(B, A), and a package was
\* added each time
C6_Witness ==
    /\ op.name = "compare_snapshots"
    /\ previous # None
    /\ previous.args = <<op.args[2], op.args[1]>>
    /\ op.args[1] # op.args[2]
    /\ differences.added_packages # <<>>
    /\ previous.result.added_packages # <<>>

(* C7: for any snapshot A, also one with repeated package names or        *)
(* repeated config paths, compare_snapshots(A, A) yields empty            *)
(* added_packages, removed_packages, added_configs, removed_configs and   *)
(* changed_configs.                                                       *)
C7_DiffIdentity ==
    (op.name = "compare_snapshots" /\ op.args[1] = op.args[2]) =>
        /\ differences.added_packages = <<>>
        /\ differences.removed_packages = <<>>
        /\ differences.added_configs = <<>>
        /\ differences.removed_configs = <<>>
        /\ differences.changed_configs = <<>>

\* compare_snapshots(A, A) ran on a snapshot that holds one config path twice,
\* with different settings
C7_Witness ==
    /\ op.name = "compare_snapshots"
    /\ op.args[1] = op.args[2]
    /\ LET configs == ReadSnapshot(op.args[1])["config_files"]
       IN  \E i, j \in DOMAIN configs :
              /\ i # j
              /\ configs[i]["path"] = configs[j]["path"]
              /\ AsMap(configs[i]["settings"]) # AsMap(configs[j]["settings"])
    /\ differences.changed_configs = <<>>

(* C8: compare_snapshots puts a config path in changed_configs if and     *)
(* only if the path is in both snapshots and the two settings mappings    *)
(* (of the last entry of the path in each snapshot) differ in their key   *)
(* set or in the value of some key; the order of the keys does not        *)
(* matter.                                                                *)
C8_ChangedConfigs ==
    op.name = "compare_snapshots" =>
        LET before == ReadSnapshot(op.args[1])
            after  == ReadSnapshot(op.args[2])
        IN  /\ NoRepeats(differences.changed_configs)
            /\ Range(differences.changed_configs) =
                  {path \in PathsIn(before) \cap PathsIn(after) :
                      LET m1 == SettingsIn(before, path)
                          m2 == SettingsIn(after, path)
                      IN  \/ DOMAIN m1 # DOMAIN m2
                          \/ \E k \in DOMAIN m1 \cap DOMAIN m2 : m1[k] # m2[k]}

\* compare_snapshots ran on two snapshots that hold one path with the same
\* settings in another key order, and did not report the path
C8_Witness ==
    /\ op.name = "compare_snapshots"
    /\ op.args[1] # op.args[2]
    /\ LET c1 == ReadSnapshot(op.args[1])["config_files"]
           c2 == ReadSnapshot(op.args[2])["config_files"]
       IN  \E i \in DOMAIN c1, j \in DOMAIN c2 :
              /\ c1[i]["path"] = c2[j]["path"]
              /\ c1[i]["settings"] # c2[j]["settings"]
              /\ AsMap(c1[i]["settings"]) = AsMap(c2[j]["settings"])
    /\ differences.changed_configs = <<>>

(* C9: create_diff_claudescript(before, after) returns a line list that   *)
(* starts with the version record and a scope record with payload 'diff', *)
(* and then holds exactly one package record per added package and one    *)
(* config record per added or changed config path, with settings the path *)
(* has in after; removed and unchanged packages and configs produce no    *)
(* record.                                                                *)
C9_DiffScript ==
    op.name = "create_diff_claudescript" =>
        LET before  == ReadSnapshot(op.args[1])
            after   == ReadSnapshot(op.args[2])
            added   == NamesIn(after) \ NamesIn(before)
            changed == {path \in PathsIn(before) \cap PathsIn(after) :
                           SettingsIn(before, path) # SettingsIn(after, path)}
            paths   == (PathsIn(after) \ PathsIn(before)) \cup changed
            records == 3..Len(commands)
            IsPackageRecord(i, name) ==
                \/ commands[i] = EncodePackage(name, Latest)
                \/ \E j \in DOMAIN after["packages"] :
                      /\ after["packages"][j]["name"] = name
                      /\ commands[i] =
                            EncodePackage(name, after["packages"][j]["version"])
            IsConfigRecord(i, path) ==
                \E j \in DOMAIN after["config_files"] :
                    /\ after["config_files"][j]["path"] = path
                    /\ commands[i] =
                          EncodeConfigFile(path, after["config_files"][j]["settings"])
        IN  /\ Len(commands) = 2 + Cardinality(added) + Cardinality(paths)
            /\ commands[1] = Encode("version", SPEC_VERSION)
            /\ commands[2] = Encode("scope", ScopeDiff)
            /\ \A name \in added :
                  Cardinality({i \in records : IsPackageRecord(i, name)}) = 1
            /\ \A path \in paths :
                  Cardinality({i \in records : IsConfigRecord(i, path)}) = 1

\* create_diff_claudescript ran on two snapshots that hold one path with
\* different settings, and wrote one record for it
C9_Witness ==
    /\ op.name = "create_diff_claudescript"
    /\ op.args[1] # op.args[2]
    /\ LET before == ReadSnapshot(op.args[1])
           after  == ReadSnapshot(op.args[2])
       IN  \E path \in PathsIn(before) \cap PathsIn(after) :
              SettingsIn(before, path) # SettingsIn(after, path)
    /\ Len(commands) = 3

(* --------------------- apply_snapshot: specification ------------------- *)
ApplyLines ==
    { <<"p", ":", "a", "-", "1">>,
      <<"p", ":", "b", "-", "1">>,
      <<"p", ":">>,
      <<"c", "f", ":", "/", "e", BS, ":", "k", "=", "1">>,
      <<"c", "f", ":", "x", BS, ":", "k", "=", "1">>,
      <<"c", "f", ":", "/", "d", "/", "e", BS, ":", "k", "=", "1">>,
      <<"c", "f", ":", "~", "/", "e", BS, ":", "k", "=", "1">>,
      <<"c", "f", ":", BS, ":", "k", "=", "1">>,
      <<"p", "k", ":", "a", BS, ":", "c", BS, ":", "/", "e", BS, ":", "y">>,
      <<"t", ":", "s", BS, ":", "k", "=", "1">>,
      <<"t", ":", "s">>,
      <<"z", "z", ":", "x">> }

ApplyPath == "A"

\* the packages installed, the paths that exist and the directories that
\* cannot be made when apply_snapshot is called
Systems ==
    { [installed |-> i, existing |-> e, unwritable |-> u] :
        i \in {{}, {<<"a">>}, {<<"a">>, <<"b">>}},
        e \in {{<<"/">>}, {<<"/">>, <<"/", "e">>}},
        u \in {{}, {<<"/", "d">>}} }

InitApply ==
    /\ prefix_map = PREFIX_MAP
    /\ spec_version = SPEC_VERSION
    /\ stdout = <<>>
    /\ op = Op("init", <<>>)
    /\ files \in [{ApplyPath} -> SeqUpTo(ApplyLines, MaxApplyLines)]
    /\ \E system \in Systems :
          /\ installed = system.installed
          /\ existing = system.existing
          /\ unwritable = system.unwritable
    /\ dry_run \in BOOLEAN
    /\ results = None
    /\ differences = None /\ previous = None /\ commands = <<>>
    /\ CodecIdle /\ SnapIdle /\ RunnerIdle /\ ThreadsIdle

\* apply_snapshot(snapshot_path, dry_run)
ApplySnapshotOp ==
    /\ op.name = "init"
    /\ LET applied == ApplySnapshot(ApplyPath)
       IN  /\ results' = applied.results
           /\ existing' = applied.existing
    /\ op' = Op("apply_snapshot", <<ApplyPath, dry_run>>)
    /\ stdout' = stdout \o ReadWarnings(ApplyPath)
    /\ UNCHANGED <<prefix_map, spec_version, installed, unwritable, dry_run,
                   codecVars, snapVars, diffVars, runnerVars, threadVars>>

NextApply == ApplySnapshotOp

SpecApply == InitApply /\ [][NextApply]_vars

Count(q, x) == Cardinality({i \in DOMAIN q : q[i] = x})

(* C10: under dry-run, apply_snapshot handles each package of the         *)
(* snapshot (an entry with a name) as follows: if the package is already  *)
(* installed it adds an 'already installed' entry to warnings and no      *)
(* entry to changes for that package; if it is not installed it adds      *)
(* exactly one 'Would install package' entry to changes and no entry to   *)
(* errors. The entries of changes for a package are those of its          *)
(* installation; the entry of a package config is that of another item.   *)
C10_DryRunPackages ==
    (op.name = "apply_snapshot" /\ dry_run) =>
        LET packages == ReadSnapshot(ApplyPath)["packages"]
            names    == [i \in DOMAIN packages |-> packages[i]["name"]]
        IN  /\ results.errors = <<>>
            /\ \A name \in Range(names) \ {<<>>} :
                  LET already == <<"Package already installed: ", name>>
                      would   == <<"Would install package: ", name>>
                  IN  /\ Count(results.changes, <<"Installing package: ", name>>) = 0
                      /\ Count(results.changes, <<"Installed ", name>>) = 0
                      /\ IF name \in installed
                         THEN /\ Count(results.warnings, already) = Count(names, name)
                              /\ Count(results.changes, would) = 0
                         ELSE /\ Count(results.warnings, already) = 0
                              /\ Count(results.changes, would) = Count(names, name)

\* apply_snapshot ran under dry-run on a snapshot with a package that is
\* installed and one that is not
C10_Witness ==
    /\ op.name = "apply_snapshot"
    /\ dry_run
    /\ \E name \in installed :
          <<"Package already installed: ", name>> \in Range(results.warnings)
    /\ \E i \in DOMAIN results.changes :
          results.changes[i][1] = "Would install package: "

\* the outcomes results reports for a package, a config file, a package
\* config and a tweak of the snapshot
Heads(q, heads) == {i \in DOMAIN q : q[i][1] \in heads}

PackageOutcomes(package) ==
    {"already-satisfied" : i \in {j \in Heads(results.warnings, {"Package already installed: "}) :
                                     results.warnings[j][2] = package["name"]}}
    \cup {"would-change" : i \in {j \in Heads(results.changes, {"Would install package: "}) :
                                     results.changes[j][2] = package["name"]}}
    \cup {"changed" : i \in {j \in Heads(results.changes, {"Installed "}) :
                                results.changes[j][2] = package["name"]}}
    \cup {"failed" : i \in {j \in Heads(results.errors, {"Failed to install "}) :
                               results.errors[j][2] = package["name"]}}

ConfigOutcomes(config) ==
    {"would-change" : i \in {j \in Heads(results.changes, {"Would update configuration: ",
                                                           "Would create configuration: "}) :
                                     results.changes[j][2] = config["path"]}}
    \cup {"changed" : i \in {j \in Heads(results.changes, {"Updated ", "Created "}) :
                                results.changes[j][2] = config["path"]}}
    \cup {"failed" : i \in {j \in Heads(results.errors, {"Failed to update ",
                                                         "Failed to create "}) :
                               results.errors[j][2] = config["path"]}}

PackageConfigOutcomes(pkg_config) ==
    {"already-satisfied" : i \in {j \in Heads(results.warnings, {"Package "}) :
                                     results.warnings[j][2] = pkg_config["package"]}}
    \cup {"would-change" : i \in {j \in Heads(results.changes, {"Would configure "}) :
                                     /\ results.changes[j][2] = pkg_config["package"]
                                     /\ results.changes[j][4] = pkg_config["path"]}}
    \cup {"changed" : i \in {j \in Heads(results.changes, {"Configured "}) :
                                results.changes[j][2] = pkg_config["package"]}}
    \cup {"failed" : i \in {j \in Heads(results.errors, {"Failed to configure "}) :
                               results.errors[j][2] = pkg_config["package"]}}

TweakOutcomes(tweak) ==
    {"would-change" : i \in {j \in Heads(results.changes, {"Would apply tweak to "}) :
                                     /\ results.changes[j][2] = tweak["component"]
                                     /\ results.changes[j][4] = tweak["tweak"]}}
    \cup {"changed" : i \in {j \in Heads(results.changes, {"Applied tweak to "}) :
                                results.changes[j][2] = tweak["component"]}}
    \cup {"failed" : i \in {j \in Heads(results.errors, {"Failed to apply tweak to "}) :
                               results.errors[j][2] = tweak["component"]}}

(* C11: in apply_snapshot every item of the decoded snapshot (each        *)
(* package, config file, package config and tweak) is classified into     *)
(* exactly one of already-satisfied, would-change, changed and failed: no *)
(* item is left unreported and none is reported under two outcomes. (The  *)
(* warning for a package config whose package is not installed counts as  *)
(* its one outcome.)                                                      *)
C11_EveryItemClassified ==
    op.name = "apply_snapshot" =>
        LET snap == ReadSnapshot(ApplyPath)
        IN  /\ \A i \in DOMAIN snap["packages"] :
                  Cardinality(PackageOutcomes(snap["packages"][i])) = 1
            /\ \A i \in DOMAIN snap["config_files"] :
                  Cardinality(ConfigOutcomes(snap["config_files"][i])) = 1
            /\ \A i \in DOMAIN snap["package_configs"] :
                  Cardinality(PackageConfigOutcomes(snap["package_configs"][i])) = 1
            /\ \A i \in DOMAIN snap["tweaks"] :
                  Cardinality(TweakOutcomes(snap["tweaks"][i])) = 1

(* C12: apply_snapshot with dry_run=True performs no side effect, for any *)
(* snapshot and any system state: no package is installed and no file or  *)
(* directory is created or modified; only the report is produced.         *)
C12_DryRunNoSideEffect ==
    [][(op'.name = "apply_snapshot" /\ dry_run) =>
          /\ installed' = installed
          /\ existing' = existing
          /\ unwritable' = unwritable
          /\ files' = files]_vars

\* apply_snapshot ran under dry-run on a snapshot with a config file whose
\* directory does not exist, and reported that it would create it
C12_Witness ==
    /\ op.name = "apply_snapshot"
    /\ dry_run
    /\ \E i \in DOMAIN results.changes :
          /\ results.changes[i][1] = "Would create configuration: "
          /\ Dirname(Expanduser(results.changes[i][2])) \notin existing \cup {<<>>}

(* C13: under real-run, for a package that is not installed               *)
(* apply_snapshot delegates to the collaborator's install operation and   *)
(* reports its outcome: the package is reported as installed in changes   *)
(* only if the install succeeded (the package is installed when           *)
(* apply_snapshot returns), and an install that failed (the package is    *)
(* still not installed) is reported in errors.                            *)
C13_InstallDelegated ==
    (op.name = "apply_snapshot" /\ ~dry_run) =>
        LET packages == ReadSnapshot(ApplyPath)["packages"]
        IN  \A i \in DOMAIN packages :
               LET name == packages[i]["name"]
               IN  /\ <<"Installed ", name>> \in Range(results.changes) =>
                          name \in installed
                   /\ (name # <<>> /\ name \notin installed) =>
                          \E j \in DOMAIN results.errors :
                              /\ results.errors[j][1] = "Failed to install "
                              /\ results.errors[j][2] = name

\* the items of a collection that have the fields apply_snapshot asks for
Complete(items, fields) ==
    {i \in DOMAIN items : \A field \in fields : items[i][field] # <<>>}

(* C14: in apply_snapshot a failure while processing one item never       *)
(* aborts the run: the failure is recorded in the report and every later  *)
(* item of the snapshot (later packages, then config files, package       *)
(* configs and tweaks) is still evaluated and reported, so the report     *)
(* holds one outcome per item of each collection.                         *)
C14_FailureDoesNotAbort ==
    op.name = "apply_snapshot" =>
        LET snap == ReadSnapshot(ApplyPath)
            Reports(changed, skipped, failed) ==
                Cardinality(Heads(results.changes, changed))
                    + Cardinality(Heads(results.warnings, skipped))
                    + Cardinality(Heads(results.errors, failed))
        IN  /\ Reports({"Would install package: ", "Installed "},
                       {"Package already installed: "},
                       {"Failed to install "})
                  = Cardinality(Complete(snap["packages"], {"name"}))
            /\ Reports({"Would update configuration: ", "Updated ",
                        "Would create configuration: ", "Created "},
                       {},
                       {"Failed to update ", "Failed to create "})
                  = Cardinality(Complete(snap["config_files"], {"path"}))
            /\ Reports({"Would configure ", "Configured "},
                       {"Package "},
                       {"Failed to configure "})
                  = Cardinality(Complete(snap["package_configs"], {"package", "path"}))
            /\ Reports({"Would apply tweak to ", "Applied tweak to "},
                       {},
                       {"Failed to apply tweak to "})
                  = Cardinality(Complete(snap["tweaks"], {"component", "tweak"}))

\* apply_snapshot failed on one config file and reported the change of a
\* later one
C14_Witness ==
    /\ op.name = "apply_snapshot"
    /\ LET configs == ReadSnapshot(ApplyPath)["config_files"]
       IN  \E i, j \in DOMAIN configs :
              /\ i < j
              /\ configs[i]["path"] # configs[j]["path"]
              /\ \E k \in DOMAIN results.errors :
                    results.errors[k][2] = configs[i]["path"]
              /\ \E k \in Heads(results.changes, {"Updated ", "Created "}) :
                    results.changes[k][2] = configs[j]["path"]

\* a bad line: no prefix of the table matches, or it is a package_config
\* record with fewer than 4 colon-delimited fields
BadLine(line) ==
    \/ \A i \in DOMAIN prefix_map : ~StartsWith(line, prefix_map[i].prefix)
    \/ /\ Decode(line).type = "package_config"
       /\ Cardinality({i \in DOMAIN Decode(line).data : Decode(line).data[i] = ":"}) < 3

GoodLine(line) == ~BadLine(line)

(* C15: decode_snapshot never aborts on a bad line: a line with no        *)
(* matching prefix, or a package_config record with fewer than 4          *)
(* colon-delimited fields, is reported as a warning (printed) and         *)
(* skipped, and the returned snapshot equals the one obtained from the    *)
(* same line list with the bad lines removed.                             *)
C15_BadLinesSkipped ==
    op.name = "decode_snapshot" =>
        /\ snapshot = DecodeSnapshot(SelectSeq(claudescript_lines, GoodLine))
        /\ Len(stdout) = Len(SelectSeq(claudescript_lines, BadLine))
        /\ \A i \in DOMAIN stdout : stdout[i][1] = "Warning: "

\* decode_snapshot read a bad line and then a package line, warned of the
\* first and kept the package of the second
C15_Witness ==
    /\ op.name = "decode_snapshot"
    /\ Len(claudescript_lines) = 2
    /\ BadLine(claudescript_lines[1])
    /\ GoodLine(claudescript_lines[2])
    /\ Len(stdout) = 1
    /\ Len(snapshot["packages"]) = 1

(* ------------------------ registry: specification ---------------------- *)
\* __init__(spec_file): the table and the version of the specification file
\* when there is one, PREFIX_MAP and SPEC_VERSION otherwise
InitPrefixMap(spec_data) ==
    IF spec_data = None THEN PREFIX_MAP ELSE Get(spec_data, "prefixes", PREFIX_MAP)

InitSpecVersion(spec_data) ==
    IF spec_data = None THEN SPEC_VERSION ELSE Get(spec_data, "version", SPEC_VERSION)

SpecPath == "spec"

\* the prefix tables a specification file can hold
SpecTables ==
    { PREFIX_MAP,
      << Item(<<"a", ":">>, "alias"), Item(<<"a", ":", "b", ":">>, "build") >>,
      << Item(<<"a", ":", "b", ":">>, "build"), Item(<<"a", ":">>, "alias") >>,
      << Item(<<"p", ":">>, "package"), Item(<<"p", "k", "g", ":">>, "package") >> }

\* the specification file: none, or its JSON object
SpecFiles ==
    {None} \cup {[version |-> <<"2">>]}
        \cup {[prefixes |-> table] : table \in SpecTables}
        \cup {[version |-> <<"2">>, prefixes |-> table] : table \in SpecTables}

RegistryLines ==
    { <<"z", "z", ":", "f", "o", "o">>,
      <<"a", ":", "b", ":", "c">>,
      <<"a", ":", "x">>,
      <<"p", ":", "a">>,
      <<"p", "k", "g", ":", "a">>,
      <<"x">> }

RegistryTypes == {"package", "alias", "build"} \cup UnknownTypes

RegistryPayloads == {<<>>, <<"a">>, <<"a", ":">>}

\* before ClaudeScript(spec_file) is called
InitRegistry ==
    /\ prefix_map = <<>>
    /\ spec_version = <<>>
    /\ stdout = <<>>
    /\ op = Op("new", <<>>)
    /\ files \in [{SpecPath} -> SpecFiles]
    /\ data_type \in RegistryTypes
    /\ data \in RegistryPayloads
    /\ claudescript \in RegistryLines
    /\ decoded = None
    /\ differences = None /\ previous = None /\ commands = <<>>
    /\ SnapIdle /\ ApplyIdle /\ RunnerIdle /\ ThreadsIdle

\* ClaudeScript(spec_file)
ConstructOp ==
    /\ op.name = "new"
    /\ prefix_map' = InitPrefixMap(files[SpecPath])
    /\ spec_version' = InitSpecVersion(files[SpecPath])
    /\ op' = Op("init", <<SpecPath>>)
    /\ UNCHANGED <<codecVars, snapVars, diffVars, applyVars, stdout,
                   runnerVars, threadVars>>

\* decode(claudescript) on a line that is given
DecodeLineOp ==
    /\ op.name = "init"
    /\ decoded' = DecodeResult(claudescript)
    /\ op' = Op("decode_line", <<>>)
    /\ UNCHANGED <<prefix_map, spec_version, data_type, data, claudescript,
                   snapVars, diffVars, applyVars, stdout, runnerVars,
                   threadVars>>

NextRegistry == ConstructOp \/ DecodeLineOp \/ EncodeOp \/ DecodeOp

SpecRegistry == InitRegistry /\ [][NextRegistry]_vars

(* C16: decode of a line that starts with no registered prefix (e.g.      *)
(* 'zz:foo' when 'zz:' is not registered) fails with the invalid-format   *)
(* error and returns no (type, payload) pair.                             *)
C16_UnknownPrefixFails ==
    (/\ op.name = "decode_line"
     /\ \A i \in DOMAIN prefix_map : ~StartsWith(claudescript, prefix_map[i].prefix)) =>
        /\ decoded = ValueError
        /\ DOMAIN decoded \cap {"type", "data"} = {}

\* decode ran on 'zz:foo' with the table PREFIX_MAP and raised
C16_Witness ==
    /\ op.name = "decode_line"
    /\ prefix_map = PREFIX_MAP
    /\ claudescript = <<"z", "z", ":", "f", "o", "o">>
    /\ decoded = ValueError

\* a table in which each type has one prefix and no prefix starts another
Bijective(table) ==
    \A i, j \in DOMAIN table :
        (table[i].type = table[j].type \/ table[i].prefix = table[j].prefix) => i = j

PrefixFree(table) ==
    \A i, j \in DOMAIN table :
        StartsWith(table[j].prefix, table[i].prefix) => i = j

(* C17: in the prefix registry the mapping between record types and       *)
(* prefixes is a bijection (each type has exactly one prefix and each      *)
(* prefix exactly one type) and no registered prefix is a prefix of        *)
(* another registered prefix.                                              *)
C17_RegistryBijective ==
    op.name # "new" => Bijective(prefix_map) /\ PrefixFree(prefix_map)

(* C18: registry construction (__init__, also when the prefix table is    *)
(* loaded from a specification file) validates the table and rejects one  *)
(* in which a prefix is a prefix of another or two prefixes map to one    *)
(* record type, so no instance ever holds such a table.                   *)
C18_ConstructionValidates ==
    [][(/\ op.name = "new"
        /\ files[SpecPath] # None
        /\ "prefixes" \in DOMAIN files[SpecPath]
        /\ \/ ~Bijective(files[SpecPath]["prefixes"])
           \/ ~PrefixFree(files[SpecPath]["prefixes"])) =>
          prefix_map' # files[SpecPath]["prefixes"]]_vars

(* C19: when two registered prefixes both match the start of a line,      *)
(* decode selects the longest of them, whatever the iteration order of    *)
(* the prefix table.                                                      *)
C19_LongestMatch ==
    op.name = "decode_line" =>
        LET matching == {i \in DOMAIN prefix_map :
                            StartsWith(claudescript, prefix_map[i].prefix)}
        IN  \A i \in matching :
               (\A j \in matching : Len(prefix_map[j].prefix) <= Len(prefix_map[i].prefix)) =>
                   /\ decoded.ok
                   /\ decoded.type = prefix_map[i].type
                   /\ decoded.data =
                         ParseForDecoding(SubSeq(claudescript,
                                                 Len(prefix_map[i].prefix) + 1,
                                                 Len(claudescript)))

\* the place of a record type in the order encode_snapshot writes
RecordOrder ==
    <<"version", "system", "scope", "kernel", "cpu", "memory", "gpu", "disk",
      "package", "config", "package_config", "tweak", "runtime">>

Rank(type) == CHOOSE i \in DOMAIN RecordOrder : RecordOrder[i] = type

MapSeq(q, F(_)) == [i \in 1..Len(q) |-> F(q[i])]

RecordsOf(lines, type) ==
    SelectSeq(lines, LAMBDA line : ~DecodeRaises(line) /\ Decode(line).type = type)

\* a field written with only its literal colons as '\:'
Field(s) == CleanForEncoding(s)

(* C22: the structured encoders write the separator between sub-fields    *)
(* as a plain ':' and only a literal colon inside a field as '\:': the    *)
(* config record of path and settings is 'cf:' path ':' k=v,... and the   *)
(* tweak record of component and tweak is 't:' component ':' tweak, e.g.  *)
(* 'cf:/etc/fstab:defaults=relatime' and 't:sysctl:vm.swappiness=10'.     *)
C22_PlainSeparator ==
    op.name = "encode_snapshot" =>
        LET configs == SelectSeq(Get(snapshot_data, "config_files", <<>>),
                                 LAMBDA config : Get(config, "path", <<>>) # <<>>)
            tweaks  == Get(snapshot_data, "tweaks", <<>>)
            KeyValues(settings) ==
                Join([i \in DOMAIN settings |->
                         settings[i][1] \o <<"=">> \o settings[i][2]], <<",">>)
        IN  /\ RecordsOf(encoded_lines, "config") =
                  MapSeq(configs,
                         LAMBDA config :
                             <<"c", "f", ":">> \o Field(config["path"]) \o <<":">>
                                 \o Field(KeyValues(config["settings"])))
            /\ RecordsOf(encoded_lines, "tweak") =
                  MapSeq(tweaks,
                         LAMBDA entry :
                             <<"t", ":">> \o Field(entry["component"]) \o <<":">>
                                 \o Field(entry["tweak"]))

\* the record types decode_snapshot has no branch for
Unhandled ==
    {"service", "input", "output", "network", "command", "build", "error",
     "alias", "hook"}

HandledLine(line) == DecodeRaises(line) \/ Decode(line).type \notin Unhandled

(* C23: a line whose record type is registered but not handled by         *)
(* decode_snapshot (service, input, output, network, command, build,      *)
(* error, alias, hook) is silently dropped: the decoded snapshot is the   *)
(* one obtained without that line, and nothing more is printed than       *)
(* without it.                                                            *)
C23_UnhandledDropped ==
    op.name = "decode_snapshot" =>
        LET handled == SelectSeq(claudescript_lines, HandledLine)
        IN  /\ snapshot = DecodeSnapshot(handled)
            /\ stdout = DecodeWarnings(handled)

\* decode_snapshot read a service or hook line and then a package line
C23_Witness ==
    /\ op.name = "decode_snapshot"
    /\ Len(claudescript_lines) = 2
    /\ ~HandledLine(claudescript_lines[1])
    /\ claudescript_lines[2] = <<"p", ":", "a", "-", "1">>
    /\ Len(snapshot["packages"]) = 1
    /\ stdout = <<>>

Unknown == <<"u", "n", "k", "n", "o", "w", "n">>

(* C24: decoding a package record whose payload carries no version part   *)
(* is recoverable (no warning) and yields the package with version        *)
(* "unknown".                                                             *)
C24_VersionUnknown ==
    op.name = "decode_snapshot" =>
        LET records == RecordsOf(claudescript_lines, "package")
        IN  /\ Len(snapshot["packages"]) = Len(records)
            /\ \A i \in DOMAIN records :
                  ~Contains(Decode(records[i]).data, "-") =>
                      snapshot["packages"][i] =
                          [name |-> Decode(records[i]).data, version |-> Unknown]

(* C25: when one snapshot contains two package records with the same      *)
(* name, the decoded package collection holds a single entry for that     *)
(* name, carrying the version of the last record (or the input is         *)
(* rejected): it never holds two entries with the same name.              *)
C25_LastPackageWins ==
    op.name = "decode_snapshot" =>
        \/ snapshot = None
        \/ LET records == RecordsOf(claudescript_lines, "package")
               pkgs    == snapshot["packages"]
           IN  /\ \A i, j \in DOMAIN pkgs : pkgs[i]["name"] = pkgs[j]["name"] => i = j
               /\ \A i \in DOMAIN records :
                     (\A j \in DOMAIN records :
                         j > i => DecodePackage(records[j])["name"]
                                      # DecodePackage(records[i])["name"]) =>
                         \E k \in DOMAIN pkgs : pkgs[k] = DecodePackage(records[i])

C27_DiffVersionLatest ==
    op.name = "create_diff_claudescript" =>
        LET before == ReadSnapshot(op.args[1])
            after  == ReadSnapshot(op.args[2])
            added  == NamesIn(after) \ NamesIn(before)
        IN  \A i \in DOMAIN commands :
               Decode(commands[i]).type = "package" =>
                   \E name \in added :
                       commands[i] = <<"p", ":">> \o name \o <<"-">> \o Latest

\* the change script holds a record for a package that after has at version 2
C27_Witness ==
    /\ op.name = "create_diff_claudescript"
    /\ files[op.args[2]] = << <<"p", ":", "a", "-", "2">> >>
    /\ files[op.args[1]] = <<>>
    /\ Len(commands) = 3
    /\ commands[3] = <<"p", ":", "a", "-", "l", "a", "t", "e", "s", "t">>

(* C28: for every config path reported in changed_configs, the settings   *)
(* create_diff_claudescript writes into the change script are the         *)
(* after-side settings compare_snapshots compared to decide the path      *)
(* changed (those of the last entry of the path), also when the after     *)
(* snapshot contains the path more than once.                             *)
C28_DiffWritesComparedSettings ==
    op.name = "create_diff_claudescript" =>
        LET before  == ReadSnapshot(op.args[1])
            after   == ReadSnapshot(op.args[2])
            changed == {path \in PathsIn(before) \cap PathsIn(after) :
                           SettingsIn(before, path) # SettingsIn(after, path)}
        IN  \A path \in changed :
               \E i \in DOMAIN commands :
                   /\ Decode(commands[i]).type = "config"
                   /\ DecodeConfigFile(commands[i])["path"] = path
                   /\ AsMap(DecodeConfigFile(commands[i])["settings"])
                          = SettingsIn(after, path)

(* C29: compare_snapshots always returns changed_tweaks as an empty list: *)
(* differences in tweaks, package configs, runtime configs, kernel or     *)
(* hardware facts never appear in the result, which is determined by the  *)
(* package names and the config files of the two snapshots.               *)
C29_OnlyPackagesAndConfigs ==
    op.name = "compare_snapshots" =>
        LET before == ReadSnapshot(op.args[1])
            after  == ReadSnapshot(op.args[2])
            d      == differences
        IN  /\ d.changed_tweaks = <<>>
            /\ DOMAIN d = {"added_packages", "removed_packages", "added_configs",
                           "changed_configs", "removed_configs", "changed_tweaks",
                           "summary"}
            /\ \A key \in DOMAIN d \ {"summary"} : NoRepeats(d[key])
            /\ Range(d.added_packages) = NamesIn(after) \ NamesIn(before)
            /\ Range(d.removed_packages) = NamesIn(before) \ NamesIn(after)
            /\ Range(d.added_configs) = PathsIn(after) \ PathsIn(before)
            /\ Range(d.removed_configs) = PathsIn(before) \ PathsIn(after)
            /\ Range(d.changed_configs) =
                  {path \in PathsIn(before) \cap PathsIn(after) :
                      SettingsIn(before, path) # SettingsIn(after, path)}
            /\ d.summary =
                  [packages |-> [added   |-> Len(d.added_packages),
                                 removed |-> Len(d.removed_packages)],
                   configs  |-> [added   |-> Len(d.added_configs),
                                 changed |-> Len(d.changed_configs),
                                 removed |-> Len(d.removed_configs)]]

\* compare_snapshots ran on two snapshots that differ in a tweak and in the
\* kernel only, and reported no difference
C29_Witness ==
    /\ op.name = "compare_snapshots"
    /\ files[op.args[1]] = << <<"t", ":", "s", BS, ":", "k", "=", "1">> >>
    /\ files[op.args[2]] = << <<"k", ":", "6">> >>
    /\ differences.added_packages = <<>>
    /\ differences.changed_configs = <<>>
    /\ differences.summary.configs.changed = 0

(* -------------- OperatingTools.py: ClaudeScriptRunner ------------------ *)
Sysctl == <<"s", "y", "s", "c", "t", "l">>

\* a call of a collaborator with its arguments; after logger.error the
\* method returns False
Call(name, args) == [call |-> name, args |-> args]

\* the "r:" branch of apply_claudescript
RunnerRuntime(config) ==
    IF Contains(config, ":")
    THEN LET app     == Split(config, ":", 1)[1]
             setting == Split(config, ":", 1)[2]
         IN  IF app = <<"n", "e", "o", "v", "i", "m">> \/ app = <<"n", "v", "i", "m">>
             THEN Call("ConfigManager.add_to_config_file",
                       <<Expanduser(<<"~", "/", ".config/nvim/init.vim">>), setting>>)
             ELSE IF app = <<"z", "s", "h">>
             THEN Call("ConfigManager.add_to_config_file",
                       <<Expanduser(<<"~", "/", ".zshrc">>), setting>>)
             ELSE IF app = <<"b", "a", "s", "h">>
             THEN Call("ConfigManager.add_to_config_file",
                       <<Expanduser(<<"~", "/", ".bashrc">>), setting>>)
             ELSE Call("logger.error", <<"Unknown application">>)
    ELSE Call("logger.error", <<"Invalid runtime configuration format">>)

\* the "t:" branch of apply_claudescript
RunnerTweak(tweak) ==
    IF Contains(tweak, ":")
    THEN LET component == Split(tweak, ":", 1)[1]
             setting   == Split(tweak, ":", 1)[2]
         IN  IF component = Sysctl
             THEN IF Contains(setting, "=")
                  THEN Call("SystemOptimizer.apply_sysctl_setting",
                            <<Strip(Split(setting, "=", 1)[1]),
                              Strip(Split(setting, "=", 1)[2])>>)
                  ELSE Call("logger.error", <<"Invalid sysctl format">>)
             ELSE Call("logger.error", <<"Unknown tweak component">>)
    ELSE Call("logger.error", <<"Invalid tweak format">>)

\* the collaborator call apply_claudescript(script) makes
RunnerCall(line) ==
    IF StartsWith(line, <<"p", ":">>)
    THEN Call("PackageManager.install", <<SubSeq(line, 3, Len(line))>>)
    ELSE IF StartsWith(line, <<"c", "m", "d", ":">>)
    THEN Call("subprocess.run", <<SubSeq(line, 5, Len(line))>>)
    ELSE IF StartsWith(line, <<"r", ":">>)
    THEN RunnerRuntime(SubSeq(line, 3, Len(line)))
    ELSE IF StartsWith(line, <<"t", ":">>)
    THEN RunnerTweak(SubSeq(line, 3, Len(line)))
    ELSE Call("logger.error", <<"Unsupported ClaudeScript command">>)

\* what apply_claudescript(script) can do: the call it makes and the value it
\* returns, which is the collaborator's, and False after logger.error
ApplyClaudescript(line) ==
    {[call |-> RunnerCall(line).call, args |-> RunnerCall(line).args, returned |-> r] :
        r \in IF RunnerCall(line).call = "logger.error" THEN {FALSE} ELSE BOOLEAN}

(* ------------------------ runner: specification ------------------------ *)
\* the encoder calls that make a line: the encoder and its arguments
RunnerRecords ==
    LET settings == {<<"k", "=", "1">>, <<"k", " ", "=", " ", "1">>, <<"k">>,
                     <<"k", ":", "j", "=", "1">>}
    IN  {Op("encode_package", <<name, version>>) :
            name \in {<<"a">>, <<"b">>, <<"a", "-", "b">>, <<"n", "v", "i", "m">>},
            version \in {<<"1">>, <<"1", "-", "2">>, Latest}}
        \cup {Op("encode_tweak", <<component, tweak>>) :
                component \in {Sysctl, <<"s">>}, tweak \in settings}
        \cup {Op("encode_runtime_config", <<application, setting>>) :
                application \in {<<"n", "e", "o", "v", "i", "m">>, <<"n", "v", "i", "m">>,
                                 <<"z", "s", "h">>, <<"b", "a", "s", "h">>, <<"x">>},
                setting \in settings}
        \cup {Op("encode_command", <<command>>) :
                command \in {<<"l", "s">>, <<"l", "s", " ", "a", ":", "b">>}}

\* lines written by hand in the format of the encoders' docstrings
RunnerScripts ==
    { <<"p", ":", "a">>,
      <<"t", ":">> \o Sysctl \o <<":", "k", "=", "1">>,
      <<"t", ":">> \o Sysctl \o <<":", "k">>,
      <<"t", ":", "s", ":", "k", "=", "1">>,
      <<"t", ":", "s">>,
      <<"r", ":", "z", "s", "h", ":", "n">>,
      <<"r", ":", "n">>,
      <<"c", "m", "d", ":", "l", "s">>,
      <<"k", ":", "6">> }

InitRunner ==
    /\ prefix_map = PREFIX_MAP
    /\ spec_version = SPEC_VERSION
    /\ stdout = <<>>
    /\ op = Op("init", <<>>)
    /\ script = <<>>
    /\ called = None
    /\ files = None /\ differences = None /\ previous = None /\ commands = <<>>
    /\ CodecIdle /\ SnapIdle /\ ApplyIdle /\ ThreadsIdle

\* a line is made by encode_package, encode_tweak, encode_runtime_config or
\* encode_command
EncodeRecordOp ==
    /\ op.name = "init"
    /\ \E record \in RunnerRecords :
          /\ script' =
                CASE record.name = "encode_package" ->
                         EncodePackage(record.args[1], record.args[2])
                  [] record.name = "encode_tweak" ->
                         EncodeTweak(record.args[1], record.args[2])
                  [] record.name = "encode_runtime_config" ->
                         EncodeRuntimeConfig(record.args[1], record.args[2])
                  [] record.name = "encode_command" ->
                         Encode("command", record.args[1])
          /\ op' = record
    /\ UNCHANGED <<prefix_map, spec_version, called, codecVars, snapVars,
                   diffVars, applyVars, stdout, threadVars>>

\* a line is written by hand
WriteScriptOp ==
    /\ op.name = "init"
    /\ script' \in RunnerScripts
    /\ op' = Op("write", <<>>)
    /\ UNCHANGED <<prefix_map, spec_version, called, codecVars, snapVars,
                   diffVars, applyVars, stdout, threadVars>>

\* ClaudeScriptRunner.apply_claudescript(script)
ApplyClaudescriptOp ==
    /\ op.name \in {"encode_package", "encode_tweak", "encode_runtime_config",
                    "encode_command", "write"}
    /\ called' \in ApplyClaudescript(script)
    /\ op' = Op("apply_claudescript", <<op>>)
    /\ UNCHANGED <<prefix_map, spec_version, script, codecVars, snapVars,
                   diffVars, applyVars, stdout, threadVars>>

NextRunner == EncodeRecordOp \/ WriteScriptOp \/ ApplyClaudescriptOp

SpecRunner == InitRunner /\ [][NextRunner]_vars

(* C30: ClaudeScriptRunner.apply_claudescript reads a line produced by    *)
(* ClaudeScript's encoders as the record the ClaudeScript decoders        *)
(* recover from it: for a line from encode_package(name, version) it      *)
(* installs the package called name, and for a line from                  *)
(* encode_tweak('sysctl', 'key=value') it applies the sysctl setting      *)
(* key=value.                                                             *)
C30_RunnerReadsEncoderLines ==
    op.name = "apply_claudescript" =>
        LET made == op.args[1]
        IN  /\ made.name = "encode_package" =>
                  /\ called.call = "PackageManager.install"
                  /\ called.args = <<made.args[1]>>
            /\ (/\ made.name = "encode_tweak"
                /\ made.args[1] = Sysctl
                /\ made.args[2] = <<"k", "=", "1">>) =>
                  /\ called.call = "SystemOptimizer.apply_sysctl_setting"
                  /\ called.args = << <<"k">>, <<"1">> >>

(* --------------- threads on one instance: specification ---------------- *)
Threads == {1, 2}

\* variant: the invocations keep their local variables in one place
FrameShared(t) == 1

\* the frame that holds the local variables of the invocation of a thread:
\* every call of a method has a frame of its own
FrameOf(t) == t

\* the local variables of a method that has just been called; i is the place
\* in the method
NewFrame ==
    [i |-> 0, prefix |-> <<>>, snapshot |-> None, snapshot1 |-> None,
     snapshot2 |-> None, result |-> None]

NoCall == [name |-> "", args |-> <<>>, returned |-> None]

ThreadLines ==
    { <<"p", ":", "a", "-", "1">>,
      <<"z", "z", ":", "x">>,
      <<"p", "k", ":", "a">> }

\* the calls a thread can make on the instance
ThreadCalls ==
    {[name |-> "encode", args |-> <<type, <<"a", ":">>>>, returned |-> None] :
        type \in {"package", "bogus"}}
    \cup {[name |-> "decode", args |-> <<line>>, returned |-> None] :
            line \in {<<"p", ":", "a">>, <<"z", "z", ":", "x">>}}
    \cup {[name |-> "decode_snapshot", args |-> <<lines>>, returned |-> None] :
            lines \in SeqUpTo(ThreadLines, MaxThreadLines)}
    \cup {[name |-> "compare_snapshots", args |-> <<p1, p2>>, returned |-> None] :
            p1 \in SnapshotPaths, p2 \in SnapshotPaths}

ThreadFiles ==
    { [path \in SnapshotPaths |->
          IF path = "A" THEN << <<"p", ":", "a", "-", "1">> >>
          ELSE << <<"p", ":", "b", "-", "1">>, <<"z", "z", ":", "x">> >>] }

InitThreads ==
    /\ prefix_map = PREFIX_MAP
    /\ spec_version = SPEC_VERSION
    /\ stdout = <<>>
    /\ op = Op("init", <<>>)
    /\ files \in ThreadFiles
    /\ pc = [t \in Threads |-> "idle"]
    /\ invocation = [t \in Threads |-> NoCall]
    /\ frames = [f \in Threads |-> NewFrame]
    /\ differences = None /\ previous = None /\ commands = <<>>
    /\ CodecIdle /\ SnapIdle /\ ApplyIdle /\ RunnerIdle

\* frames[FrameOf(t)] with some local variables assigned
Assign(t, locals) ==
    LET old == frames[FrameOf(t)]
    IN  [frames EXCEPT ![FrameOf(t)] =
            [key \in DOMAIN old |->
                IF key \in DOMAIN locals THEN locals[key] ELSE old[key]]]

\* a thread calls a method of the instance
CallOp(t) ==
    /\ pc[t] = "idle"
    /\ \E call \in ThreadCalls : invocation' = [invocation EXCEPT ![t] = call]
    /\ frames' = [frames EXCEPT ![FrameOf(t)] = NewFrame]
    /\ pc' = [pc EXCEPT ![t] = "run"]
    /\ op' = Op("call", <<t>>)
    /\ UNCHANGED <<prefix_map, spec_version, files, differences, previous,
                   commands, codecVars, snapVars, applyVars, stdout,
                   runnerVars>>

\* encode(): the look-up of the prefix, then the return of the line
EncodeStepOp(t) ==
    /\ pc[t] = "run"
    /\ invocation[t].name = "encode"
    /\ LET local == frames[FrameOf(t)]
       IN  IF local.i = 0
           THEN /\ frames' = Assign(t, [i |-> 1,
                                        prefix |-> ReversePrefix(invocation[t].args[1])])
                /\ pc' = pc
           ELSE /\ frames' =
                      Assign(t, [result |->
                          IF local.prefix = <<>> THEN ValueError
                          ELSE [ok   |-> TRUE,
                                line |-> local.prefix
                                           \o CleanForEncoding(invocation[t].args[2])]])
                /\ pc' = [pc EXCEPT ![t] = "return"]
    /\ op' = Op("encode", <<t>>)
    /\ UNCHANGED <<prefix_map, spec_version, invocation, files, differences,
                   previous, commands, codecVars, snapVars, applyVars, stdout,
                   runnerVars>>

\* decode()
DecodeStepOp(t) ==
    /\ pc[t] = "run"
    /\ invocation[t].name = "decode"
    /\ frames' = Assign(t, [result |-> DecodeResult(invocation[t].args[1])])
    /\ pc' = [pc EXCEPT ![t] = "return"]
    /\ op' = Op("decode", <<t>>)
    /\ UNCHANGED <<prefix_map, spec_version, invocation, files, differences,
                   previous, commands, codecVars, snapVars, applyVars, stdout,
                   runnerVars>>

\* decode_snapshot(): the snapshot dict is made, then one line is decoded at
\* a time, then the dict is returned
DecodeSnapshotStepOp(t) ==
    /\ pc[t] = "run"
    /\ invocation[t].name = "decode_snapshot"
    /\ LET local == frames[FrameOf(t)]
           lines == invocation[t].args[1]
       IN  IF local.i = 0
           THEN /\ frames' = Assign(t, [i |-> 1, snapshot |-> EmptySnapshot])
                /\ UNCHANGED <<pc, stdout>>
           ELSE IF local.i <= Len(lines)
           THEN /\ frames' =
                      Assign(t, [i |-> local.i + 1,
                                 snapshot |-> DecodeLine(local.snapshot, lines[local.i])])
                /\ stdout' = stdout \o DecodeWarnings(<<lines[local.i]>>)
                /\ pc' = pc
           ELSE /\ frames' = Assign(t, [result |-> local.snapshot])
                /\ pc' = [pc EXCEPT ![t] = "return"]
                /\ stdout' = stdout
    /\ op' = Op("decode_snapshot", <<t>>)
    /\ UNCHANGED <<prefix_map, spec_version, invocation, files, differences,
                   previous, commands, codecVars, snapVars, applyVars,
                   runnerVars>>

\* compare_snapshots(): the first file is read and decoded, then the second,
\* then the differences are built
CompareStepOp(t) ==
    /\ pc[t] = "run"
    /\ invocation[t].name = "compare_snapshots"
    /\ LET local == frames[FrameOf(t)]
       IN  IF local.i < 2
           THEN LET path == invocation[t].args[local.i + 1]
                IN  /\ frames' =
                          Assign(t, IF local.i = 0
                                    THEN [i |-> 1, snapshot1 |-> ReadSnapshot(path)]
                                    ELSE [i |-> 2, snapshot2 |-> ReadSnapshot(path)])
                    /\ stdout' = stdout \o ReadWarnings(path)
                    /\ pc' = pc
           ELSE /\ \E d \in Differences(local.snapshot1, local.snapshot2) :
                      frames' = Assign(t, [result |-> d])
                /\ pc' = [pc EXCEPT ![t] = "return"]
                /\ stdout' = stdout
    /\ op' = Op("compare_snapshots", <<t>>)
    /\ UNCHANGED <<prefix_map, spec_version, invocation, files, differences,
                   previous, commands, codecVars, snapVars, applyVars,
                   runnerVars>>

\* the method returns to the thread what it built
ReturnOp(t) ==
    /\ pc[t] = "return"
    /\ invocation' = [invocation EXCEPT ![t].returned = frames[FrameOf(t)].result]
    /\ pc' = [pc EXCEPT ![t] = "done"]
    /\ op' = Op("return", <<t>>)
    /\ UNCHANGED <<prefix_map, spec_version, frames, files, differences,
                   previous, commands, codecVars, snapVars, applyVars, stdout,
                   runnerVars>>

NextThreads ==
    \/ \E t \in Threads : CallOp(t)
    \/ \E t \in Threads : EncodeStepOp(t)
    \/ \E t \in Threads : DecodeStepOp(t)
    \/ \E t \in Threads : DecodeSnapshotStepOp(t)
    \/ \E t \in Threads : CompareStepOp(t)
    \/ \E t \in Threads : ReturnOp(t)

SpecThreads == InitThreads /\ [][NextThreads]_vars

\* what a call returns when it runs alone on the instance
Alone(call) ==
    CASE call.name = "encode" ->
             {IF EncodeRaises(call.args[1]) THEN ValueError
              ELSE [ok |-> TRUE, line |-> Encode(call.args[1], call.args[2])]}
      [] call.name = "decode" -> {DecodeResult(call.args[1])}
      [] call.name = "decode_snapshot" -> {DecodeSnapshot(call.args[1])}
      [] call.name = "compare_snapshots" ->
             CompareSnapshots(call.args[1], call.args[2])

(* C21: concurrent invocations of encode, decode, decode_snapshot and     *)
(* compare_snapshots on one ClaudeScript instance share no mutable state: *)
(* under any interleaving of their steps each invocation returns what it  *)
(* returns when run alone, and the prefix table (and with it the reverse  *)
(* table) is never modified after construction.                           *)
C21_InvocationsIndependent ==
    /\ \A t \in DOMAIN pc :
          pc[t] = "done" => invocation[t].returned \in Alone(invocation[t])
    /\ pc # <<>> => prefix_map = PREFIX_MAP /\ spec_version = SPEC_VERSION

\* two decode_snapshot calls on different lines took turns line by line,
\* and both have returned
C21_Witness ==
    /\ pc # <<>>
    /\ \A t \in DOMAIN pc : pc[t] = "done" /\ invocation[t].name = "decode_snapshot"
    /\ invocation[1].args # invocation[2].args
    /\ Len(invocation[1].args[1]) = 2 /\ Len(invocation[2].args[1]) = 2
    /\ stdout = << Warning(invocation[1].args[1][1]), Warning(invocation[2].args[1][1]),
                   Warning(invocation[1].args[1][2]), Warning(invocation[2].args[1][2]) >>

====
